---- MODULE Spec2Model ----
(***************************************************************************)
(* A model of medicare_utils.MedicareDF (src/medicare_utils/medicare_df.py):*)
(* the cohort pipeline (get_cohort) and the code search pipeline            *)
(* (search_for_codes).  pandas frames are modelled as records               *)
(*   [index, columns, at]  with at[row][column] the cell, every cell a      *)
(* string ("NaN" the missing value, "True"/"False" the booleans).           *)
(***************************************************************************)
EXTENDS Integers, Sequences, FiniteSets, TLC

VARIABLES
    pc,             \* position of the running invocation
    call,           \* the arguments of the constructor or static-method call
    years,          \* self.years
    parquet_engine, \* self.parquet_engine
    year_type,      \* self.year_type
    pl,             \* self.pl, the stored patient table
    bsfab,          \* the contents of the beneficiary summary files read
    args,           \* the arguments of the running get_cohort invocation
    extracted_dfs,  \* get_cohort's list of per-year frames
    nobs_dropped_loc, \* get_cohort's local nobs_dropped dictionary
    nobs_dropped,   \* self.nobs_dropped, the stored drop accounting
    sargs,          \* the arguments of the running search_for_codes invocation
    clfiles,        \* the claim files read by the passes of the search loop
    data,           \* search_for_codes' per-pass claim frames
    crosswalk,      \* the ehic-bene_id crosswalks read when joining the years
    cl,             \* self.cl, the stored claim tables
    err             \* the exception that ended the invocation, "" if none

searchVars == <<sargs, clfiles, data, crosswalk, cl>>

nobsVars == <<nobs_dropped_loc, nobs_dropped>>

vars == <<pc, call, years, year_type, parquet_engine, pl, bsfab, args,
          extracted_dfs, nobs_dropped_loc, nobs_dropped, sargs, clfiles, data,
          crosswalk, cl, err>>

----------------------------------------------------------------------------
(* Bounds of the model and constants of the program *)

NumPatients == 2
NumYears == 2
BoundaryYear == 2006
NumMonths == 12

Patients == 0 .. (NumPatients - 1)
Months == 1 .. NumMonths

NaN == "NaN"
None == "None"
NoneVal == {"None"}      \* the value None of an Optional[List[str]] argument

Truthy(v) == v # NoneVal /\ v # {}

----------------------------------------------------------------------------
(* Frames *)

EmptyFrame == [index |-> {}, columns |-> {}, at |-> <<>>]

Loc(df, rows) ==
    [df EXCEPT !.index = df.index \cap rows,
               !.at = [p \in df.index \cap rows |-> df.at[p]]]

DropCols(df, cs) ==
    [df EXCEPT !.columns = df.columns \ cs,
               !.at = [p \in df.index |->
                          [c \in df.columns \ cs |-> df.at[p][c]]]]

SetCol(df, c, F(_)) ==
    [df EXCEPT !.columns = df.columns \cup {c},
               !.at = [p \in df.index |->
                          [x \in df.columns \cup {c} |->
                              IF x = c THEN F(p) ELSE df.at[p][x]]]]

Bool(b) == IF b THEN "True" ELSE "False"

----------------------------------------------------------------------------
(* Column names of the beneficiary summary file *)

Zfill2 == <<"01", "02", "03", "04", "05", "06",
            "07", "08", "09", "10", "11", "12">>

MonthCol(var, m) == var \o Zfill2[m]
MonthCols(var) == {MonthCol(var, m) : m \in Months}

BuyinCols == MonthCols("buyin")
HmoCols == MonthCols("hmoind")

BsfabCols == {"ehic", "sex", "age", "race", "bene_dob"}
                \cup BuyinCols \cup HmoCols

(* re search of a compiled pattern over the column names of the files *)
NumCodeCols == 2

Digits == <<"1", "2", "3", "4">>
NumberedCol(stub, i) == stub \o Digits[i]
NumberedCols(stub) == {NumberedCol(stub, i) : i \in 1..NumCodeCols}

NumberedGroup(stub, name) ==
    {i \in DOMAIN Digits : name = NumberedCol(stub, i)}

NamePrefixes == {"", "line_"}

(* m[1] of re.search(pattern, name): the empty set when there is no match, *)
(* the number the group holds, and 0 when the group holds no digit.        *)
ReGroup1(pattern, name) ==
    CASE pattern = "^dgnscd(\\d+)$" -> NumberedGroup("dgnscd", name)
      [] pattern = "^prcdrcd(\\d+)$" -> NumberedGroup("prcdrcd", name)
      [] pattern = "^icd_prcdr_cd(\\d+)$" ->
             NumberedGroup("icd_prcdr_cd", name)
      [] pattern = "^icd_dgns_cd(\\d+)$" ->
             NumberedGroup("icd_dgns_cd", name)
      [] pattern = "icd_dgns_cd(\\d*)$" ->
             UNION {NumberedGroup(pre \o "icd_dgns_cd", name)
                       \cup (IF name = pre \o "icd_dgns_cd" THEN {0} ELSE {}) :
                    pre \in NamePrefixes}
      [] pattern = "^hcpcs_cd$" -> IF name = "hcpcs_cd" THEN {0} ELSE {}
      [] pattern = "^medparid$|^clm_id$|^claimindex$" ->
             IF name \in {"medparid", "clm_id", "claimindex"} THEN {0} ELSE {}
      [] OTHER -> {}

ReSearch(pattern, name) ==
    CASE pattern = "^buyin\\d\\d" -> name \in BuyinCols
      [] pattern = "^hmoind\\d\\d" -> name \in HmoCols
      [] OTHER -> ReGroup1(pattern, name) # {}

Lit(text) == [kind |-> "str", text |-> text]
Re(text) == [kind |-> "re", text |-> text]

str_in_keep_vars(instr, keep_vars) ==
    \E keep_var \in keep_vars :
        \/ keep_var.kind = "str" /\ instr = keep_var.text
        \/ keep_var.kind = "re" /\ ReSearch(keep_var.text, instr)

----------------------------------------------------------------------------
(* The values of the cells of the beneficiary summary files *)

Dobs == {"1940-02-29", "1941-06-15"}

(* bene_dob.dt.month *)
DobMonth(d) ==
    CASE d = "1940-02-29" -> 2
      [] d = "1941-06-15" -> 6
      [] OTHER -> 0

(* The date of birth is a fixed attribute of the patient. *)
DobOf(p) == IF p = 0 THEN "1941-06-15" ELSE "1940-02-29"
EhicOf(p) == IF p = 0 THEN "E0" ELSE IF p = 1 THEN "E1" ELSE "E2"

MinYear(ys) == CHOOSE y \in {ys[i] : i \in DOMAIN ys} :
                   \A z \in {ys[i] : i \in DOMAIN ys} : y <= z
MaxYear(ys) == CHOOSE y \in {ys[i] : i \in DOMAIN ys} :
                   \A z \in {ys[i] : i \in DOMAIN ys} : y >= z

----------------------------------------------------------------------------
(* get_cohort: the columns to load *)

get_cohort_get_vars_toload(a, ytype, cols) ==
    {x \in cols :
        \/ x = "ehic"
        \/ a.gender # None /\ x = "sex"
        \/ a.ages # NoneVal /\ x = "age"
        \/ a.races # NoneVal /\ x = "race"
        \/ a.buyin_val # NoneVal /\ x \in BuyinCols
        \/ a.hmo_val # NoneVal /\ x \in HmoCols
        \/ ytype = "age" /\ x = "bene_dob"
        \/ \E keep_var \in a.keep_vars :
              keep_var.kind = "str" /\ x = keep_var.text}
    \cup {x \in cols :
            \E keep_var \in a.keep_vars :
                keep_var.kind = "re" /\ ReSearch(keep_var.text, x)}

----------------------------------------------------------------------------
(* get_cohort: the filters of one year *)

ReadColumns(file, toload_vars) == DropCols(file, file.columns \ toload_vars)

GenderStage(df, a) ==
    IF a.gender = None THEN df
    ELSE LET f == Loc(df, {p \in df.index : df.at[p]["sex"] = a.gender})
         IN IF str_in_keep_vars("sex", a.keep_vars)
            THEN f ELSE DropCols(f, {"sex"})

AgeStage(df, a) ==
    IF a.ages = NoneVal THEN df
    ELSE LET f == Loc(df, {p \in df.index : df.at[p]["age"] \in a.ages})
         IN IF str_in_keep_vars("age", a.keep_vars)
            THEN f ELSE DropCols(f, {"age"})

RaceStage(df, a) ==
    IF a.races = NoneVal THEN df
    ELSE LET f == Loc(df, {p \in df.index : df.at[p]["race"] \in a.races})
         IN IF str_in_keep_vars("race", a.keep_vars)
            THEN f ELSE DropCols(f, {"race"})

(* set(buyin_cols).difference(keep_vars): an entry of keep_vars equals a   *)
(* column name only when it is a literal string.                           *)
DifferenceKeepVars(cols, keep_vars) ==
    cols \ {keep_var.text : keep_var \in {k \in keep_vars : k.kind = "str"}}

(* A filter that asks for some month in the allowed set instead of all. *)
AllMonthsInAny(df, p, mcols, values) ==
    \E c \in mcols : df.at[p][c] \in values

AllMonthsIn(df, p, mcols, values) == \A c \in mcols : df.at[p][c] \in values

CalendarBuyinStage(df, a, buyin_cols) ==
    IF Truthy(a.buyin_val)
    THEN DropCols(Loc(df, {p \in df.index :
                              AllMonthsIn(df, p, buyin_cols, a.buyin_val)}),
                  DifferenceKeepVars(buyin_cols, a.keep_vars))
    ELSE df

CalendarHmoStage(df, a, hmo_cols) ==
    IF Truthy(a.hmo_val)
    THEN DropCols(Loc(df, {p \in df.index :
                              AllMonthsIn(df, p, hmo_cols, a.hmo_val)}),
                  DifferenceKeepVars(hmo_cols, a.keep_vars))
    ELSE df

(* cols_yo = range(1, month + 1) and cols_ol = range(month, 13) *)
YoungerMonths(month) == 1 .. month

OlderMonthsAfterBirth(month) == (month + 1) .. NumMonths

OlderMonths(month) == month .. NumMonths

get_cohort_month_filter(df, var, values, year, keep_vars, ys) ==
    IF values = NoneVal THEN df
    ELSE
    LET cols == MonthCols(var)
        dob_month(p) == DobMonth(df.at[p]["bene_dob"])
        younger(p) == \E month \in Months :
                          /\ dob_month(p) = month
                          /\ \A x \in YoungerMonths(month) :
                                 df.at[p][MonthCol(var, x)] \in values
        older(p) == \E month \in Months :
                        /\ dob_month(p) = month
                        /\ \A x \in OlderMonths(month) :
                               df.at[p][MonthCol(var, x)] \in values
        YoungerCell(p) == Bool(younger(p))
        OlderCell(p) == Bool(older(p))
        d1 == IF year # MinYear(ys)
              THEN SetCol(df, var \o "_younger", YoungerCell) ELSE df
        d2 == IF year # MaxYear(ys)
              THEN SetCol(d1, var \o "_older", OlderCell) ELSE d1
        d3 == IF year = MinYear(ys)
              THEN Loc(d2, {p \in d2.index : older(p)})
              ELSE IF year = MaxYear(ys)
              THEN Loc(d2, {p \in d2.index : younger(p)})
              ELSE Loc(d2, {p \in d2.index : younger(p) \/ older(p)})
    IN DropCols(d3, {x \in cols : ~str_in_keep_vars(x, keep_vars)})

AgeEnrollStage(df, a, year, ys) ==
    get_cohort_month_filter(
        get_cohort_month_filter(df, "buyin", a.buyin_val, year,
                                a.keep_vars, ys),
        "hmoind", a.hmo_val, year, a.keep_vars, ys)

(* pl.rename(columns=lambda x: x + f'_{year}'): a column of the merged     *)
(* frame is the pair <<name, year>>; year 0 stands for no suffix.          *)
RenameYear(df, year) ==
    [index |-> df.index,
     columns |-> {<<c, year>> : c \in df.columns},
     at |-> [p \in df.index |->
                [c \in {<<x, year>> : x \in df.columns} |-> df.at[p][c[1]]]],
     yorder |-> <<year>>]

MatchTrue(p) == "True"

(* The running state of one year's extraction: the frame, the row count    *)
(* nobs left by the previous stage, and this year's nobs_dropped entries,  *)
(* a drop 1 - (len(pl) / nobs) being kept as the pair <<len(pl), nobs>>.   *)
StartExtract(df) ==
    [err |-> "", df |-> df, nobs |-> Cardinality(df.index), dropped |-> <<>>]

Fail(s, e) == [s EXCEPT !.err = e]

(* if not dask: nobs_dropped[year][key] = 1 - (len(pl) / nobs); nobs = ... *)
RecordDrop(s, key, f, dask) ==
    IF dask THEN [s EXCEPT !.df = f]
    ELSE IF s.nobs = 0 THEN Fail(s, "ZeroDivisionError")
    ELSE [s EXCEPT !.df = f,
                   !.dropped = (key :> <<Cardinality(f.index), s.nobs>>) @@ @,
                   !.nobs = Cardinality(f.index)]

GenderStep(s, a) ==
    IF s.err # "" \/ a.gender = None THEN s
    ELSE IF "sex" \notin s.df.columns THEN Fail(s, "AssertionError")
    ELSE RecordDrop(s, "gender", GenderStage(s.df, a), a.dask)

AgeStep(s, a) ==
    IF s.err # "" \/ a.ages = NoneVal THEN s
    ELSE IF "age" \notin s.df.columns THEN Fail(s, "AssertionError")
    ELSE RecordDrop(s, "age", AgeStage(s.df, a), a.dask)

RaceStep(s, a) ==
    IF s.err # "" \/ a.races = NoneVal THEN s
    ELSE IF "race" \notin s.df.columns THEN Fail(s, "AssertionError")
    ELSE RecordDrop(s, "race", RaceStage(s.df, a), a.dask)

CalendarBuyinStep(s, a, buyin_cols) ==
    IF s.err # "" \/ ~Truthy(a.buyin_val) THEN s
    ELSE RecordDrop(s, "buyin_val",
                    CalendarBuyinStage(s.df, a, buyin_cols), a.dask)

CalendarHmoStep(s, a, hmo_cols) ==
    IF s.err # "" \/ ~Truthy(a.hmo_val) THEN s
    ELSE RecordDrop(s, "hmo_val",
                    CalendarHmoStage(s.df, a, hmo_cols), a.dask)

(* The enrollment stage; in age years the month filter records no drop. *)
EnrollStep(s, a, year, ytype, ys) ==
    IF s.err # "" \/ ~(Truthy(a.buyin_val) \/ Truthy(a.hmo_val)) THEN s
    ELSE IF ytype = "calendar"
    THEN LET buyin_cols == s.df.columns \cap BuyinCols
             hmo_cols == s.df.columns \cap HmoCols
         IN CalendarHmoStep(CalendarBuyinStep(s, a, buyin_cols), a, hmo_cols)
    ELSE [s EXCEPT !.df = AgeEnrollStage(s.df, a, year, ys)]

get_cohort_extract_each_year(file, year, toload_vars, a, ytype, ys) ==
    LET loaded == ReadColumns(file, toload_vars)
        s == EnrollStep(
                 RaceStep(AgeStep(GenderStep(StartExtract(loaded), a), a), a),
                 a, year, ytype, ys)
        renamed == RenameYear(s.df, year)
        failed(e) == [err |-> e, df |-> EmptyFrame, dropped |-> <<>>]
        done(df) == [err |-> "", df |-> df, dropped |-> s.dropped]
    IN IF s.err # "" THEN failed(s.err)
       ELSE IF ytype = "age"
       THEN IF year = MaxYear(ys)
            THEN IF <<"buyin_younger", year>> \in renamed.columns
                 THEN done(DropCols(renamed, renamed.columns
                                      \ {<<"buyin_younger", year>>}))
                 ELSE failed("KeyError")
            ELSE done(SetCol(renamed, <<"match", year>>, MatchTrue))
       ELSE IF a.join # "inner"
       THEN done(SetCol(renamed, <<"match", year>>, MatchTrue))
       ELSE done(renamed)

----------------------------------------------------------------------------
(* get_cohort: merging the years *)

JoinWide(l, r, how) ==
    LET idx == CASE how = "inner" -> l.index \cap r.index
                 [] how = "outer" -> l.index \cup r.index
                 [] OTHER -> l.index
        cols == l.columns \cup r.columns
    IN [index |-> idx,
        columns |-> cols,
        at |-> [p \in idx |->
                  [c \in cols |->
                      IF c \in l.columns
                      THEN IF p \in l.index THEN l.at[p][c] ELSE NaN
                      ELSE IF p \in r.index THEN r.at[p][c] ELSE NaN]],
        yorder |-> l.yorder \o r.yorder]

RECURSIVE JoinList(_, _, _)
JoinList(l, rs, how) ==
    IF rs = <<>> THEN l
    ELSE JoinList(JoinWide(l, Head(rs), how), Tail(rs), how)

(* A merge without the special case of join 'right'. *)
MergeYearsNoRight(dfs, ytype, join, dask) ==
    IF Len(dfs) = 1 THEN dfs[1]
    ELSE JoinList(dfs[1], Tail(dfs), IF join = "right" THEN "left" ELSE join)

MergeYears(dfs, ytype, join, dask) ==
    LET n == Len(dfs)
    IN IF n = 1 THEN dfs[1]
       ELSE IF ytype = "age"
       THEN IF n = 2 THEN JoinWide(dfs[1], dfs[2], "left")
            ELSE JoinWide(JoinList(dfs[1], SubSeq(dfs, 2, n - 1), "outer"),
                          dfs[n], "left")
       ELSE IF join = "right"
       THEN JoinList(dfs[n], SubSeq(dfs, 1, n - 1), "left")
       ELSE IF ~dask THEN JoinList(dfs[1], Tail(dfs), join)
       ELSE JoinList(dfs[1], Tail(dfs), "left")

MatchCols(df) == {c \in df.columns : c[1] = "match" /\ c[2] # 0}

(* A merge that leaves the missing match flags missing. *)
FillnaMatchSkipped(df) == df

FillnaMatch(df) ==
    [df EXCEPT !.at = [p \in df.index |->
                          [c \in df.columns |->
                              IF c \in MatchCols(df) /\ df.at[p][c] = NaN
                              THEN "False" ELSE df.at[p][c]]]]

(* One pass of the loop over self.years[:-1] for one enrollment family.    *)
AgeMaskYear(df, var, year) ==
    LET older == <<var \o "_older", year>>
        younger == <<var \o "_younger", year + 1>>
        m == <<"match", year>>
        Masked(p) == IF df.at[p][older] # "True" \/ df.at[p][younger] # "True"
                     THEN "False" ELSE df.at[p][m]
    IN DropCols(SetCol(df, m, Masked), {older, younger})

AgeMaskMissing(df, var, year) ==
    \/ <<var \o "_older", year>> \notin df.columns
    \/ <<var \o "_younger", year + 1>> \notin df.columns
    \/ <<"match", year>> \notin df.columns

RECURSIVE AgeMask(_, _, _)
AgeMask(r, var, ylist) ==
    IF r.err # "" \/ ylist = <<>> THEN r
    ELSE IF AgeMaskMissing(r.df, var, Head(ylist))
    THEN [err |-> "KeyError", df |-> r.df]
    ELSE AgeMask([err |-> "", df |-> AgeMaskYear(r.df, var, Head(ylist))],
                 var, Tail(ylist))

AgeJoinFilter(df, join, ys) ==
    LET cols == MatchCols(df)
    IN CASE join = "inner" ->
              Loc(df, {p \in df.index : \A c \in cols : df.at[p][c] = "True"})
         [] join = "outer" ->
              Loc(df, {p \in df.index : \E c \in cols : df.at[p][c] = "True"})
         [] join = "left" ->
              Loc(df, {p \in df.index :
                          df.at[p][<<"match", MinYear(ys)>>] = "True"})
         [] OTHER ->
              Loc(df, {p \in df.index :
                          df.at[p][<<"match", MaxYear(ys) - 1>>] = "True"})

AgeFlags(df, a, ys) ==
    LET front == SubSeq(ys, 1, Len(ys) - 1)
        b == IF a.buyin_val # NoneVal
             THEN AgeMask([err |-> "", df |-> df], "buyin", front)
             ELSE [err |-> "", df |-> df]
        h == IF a.hmo_val # NoneVal THEN AgeMask(b, "hmoind", front) ELSE b
    IN IF h.err # "" THEN h
       ELSE [err |-> "", df |-> AgeJoinFilter(h.df, a.join, ys)]

static_names == <<"ehic", "efivepct", "covstart", "bene_dob", "death_dt",
                  "ndi_death_dt", "sex", "race", "rti_race_cd">>

(* The years of the per-year copies of a column, in column order. *)
RECURSIVE ColsStatic(_, _, _)
ColsStatic(df, name, yo) ==
    IF yo = <<>> THEN <<>>
    ELSE IF <<name, Head(yo)>> \in df.columns
    THEN <<Head(yo)>> \o ColsStatic(df, name, Tail(yo))
    ELSE ColsStatic(df, name, Tail(yo))

(* cols[0].combine_first(col) for col in cols[1:] *)
RECURSIVE CombineFirst(_, _, _, _)
CombineFirst(df, p, name, cols) ==
    IF Len(cols) = 1 THEN df.at[p][<<name, cols[1]>>]
    ELSE IF df.at[p][<<name, cols[1]>>] # NaN
    THEN df.at[p][<<name, cols[1]>>]
    ELSE CombineFirst(df, p, name, Tail(cols))

CollapseOne(df, name) ==
    LET cols == ColsStatic(df, name, df.yorder)
        Combined(p) == CombineFirst(df, p, name, cols)
    IN IF cols = <<>> THEN df
       ELSE DropCols(SetCol(df, <<name, 0>>, Combined),
                     {<<name, cols[i]>> : i \in DOMAIN cols})

RECURSIVE CollapseStatic(_, _)
CollapseStatic(df, names) ==
    IF names = <<>> THEN df
    ELSE CollapseStatic(CollapseOne(df, Head(names)), Tail(names))

(* pd.wide_to_long(pl.reset_index(), stubs, i='bene_id', j='year'), then   *)
(* the rename of match to cohort_match.                                    *)
Stubs(df) == {c[1] : c \in {x \in df.columns : x[2] # 0}}

LongName(c) == IF c = "match" THEN "cohort_match" ELSE c

wide_to_long(df) ==
    LET stubs == Stubs(df)
        id_vars == {c[1] : c \in {x \in df.columns : x[2] = 0}}
        js == {c[2] : c \in {x \in df.columns : x[2] # 0}}
        idx == df.index \X js
        Cell(k, c) == IF c \in id_vars THEN df.at[k[1]][<<c, 0>>]
                      ELSE IF <<c, k[2]>> \in df.columns
                      THEN df.at[k[1]][<<c, k[2]>>]
                      ELSE NaN
    IN IF stubs \cap id_vars # {} THEN [err |-> "ValueError", df |-> EmptyFrame]
       ELSE IF stubs = {} THEN [err |-> "IndexError", df |-> EmptyFrame]
       ELSE [err |-> "",
             df |-> [index |-> idx,
                     columns |-> {LongName(c) : c \in id_vars \cup stubs},
                     at |-> [k \in idx |->
                               [c \in {LongName(x) : x \in id_vars \cup stubs}
                                  |-> IF c = "cohort_match"
                                      THEN Cell(k, "match") ELSE Cell(k, c)]]]]

get_cohort_merge(dfs, a, ytype, ys) ==
    LET joined == MergeYears(dfs, ytype, a.join, a.dask)
        filled == IF a.join # "inner" \/ ytype = "age"
                  THEN FillnaMatch(joined) ELSE joined
        flagged == IF ytype = "age" THEN AgeFlags(filled, a, ys)
                   ELSE [err |-> "", df |-> filled]
    IN IF flagged.err # "" THEN [err |-> flagged.err, df |-> EmptyFrame]
       ELSE wide_to_long(CollapseStatic(flagged.df, static_names))

----------------------------------------------------------------------------
(* The inputs: year lists, arguments of get_cohort and file contents *)

YearList(first, n) == [i \in 1 .. n |-> first + i - 1]

CohortYearLists == {YearList(BoundaryYear, n) : n \in 1 .. NumYears}

KeepVarsChoices == {{}, {Lit("age"), Re("^buyin\\d\\d")}}

(* gender, ages, races, buyin_val, hmo_val *)
Filters(g, a, r, b, h) ==
    [gender |-> g, ages |-> a, races |-> r, buyin_val |-> b, hmo_val |-> h]

FilterChoices ==
    {Filters(None, NoneVal, NoneVal, NoneVal, NoneVal),
     Filters("2", {"70"}, {"1"}, NoneVal, NoneVal),
     Filters(None, NoneVal, NoneVal, {"3"}, NoneVal),
     Filters(None, NoneVal, NoneVal, NoneVal, {"0"}),
     Filters("2", {"70"}, {"1"}, {"3"}, {"0"}),
     Filters(None, NoneVal, NoneVal, {}, NoneVal)}

ArgsOf(f, join, keep_vars, dask) ==
    [gender |-> f.gender, ages |-> f.ages, races |-> f.races,
     buyin_val |-> f.buyin_val, hmo_val |-> f.hmo_val, join |-> join,
     keep_vars |-> keep_vars, dask |-> dask]

JoinChoices == {"left", "right", "inner", "outer"}

CohortArgs ==
    {ArgsOf(f, j, k, d) : f \in FilterChoices, j \in JoinChoices,
                          k \in KeepVarsChoices, d \in BOOLEAN}

NoArgs == ArgsOf(Filters(None, NoneVal, NoneVal, NoneVal, NoneVal),
                 "outer", {}, FALSE)

(* A row of a file: the demographic fields and the months whose enrollment *)
(* value is outside the allowed set.                                       *)
Profile(sex, age, race, bbad, hbad) ==
    [sex |-> sex, age |-> age, race |-> race, bbad |-> bbad, hbad |-> hbad]

Profiles ==
    {Profile("2", "70", "1", {}, {}),
     Profile("1", "70", "1", {}, {}),
     Profile("2", "71", "1", {}, {}),
     Profile("2", "70", "2", {}, {}),
     Profile("2", "70", "1", {1}, {}),
     Profile("2", "70", "1", {NumMonths}, {}),
     Profile("2", "70", "1", {}, {7})}

RowOf(p, prof) ==
    [c \in BsfabCols |->
        CASE c = "ehic" -> EhicOf(p)
          [] c = "sex" -> prof.sex
          [] c = "age" -> prof.age
          [] c = "race" -> prof.race
          [] c = "bene_dob" -> DobOf(p)
          [] c \in BuyinCols ->
                IF \E m \in prof.bbad : c = MonthCol("buyin", m)
                THEN "0" ELSE "3"
          [] OTHER ->
                IF \E m \in prof.hbad : c = MonthCol("hmoind", m)
                THEN "1" ELSE "0"]

(* The contents of a file are a record [profs, missing]: the profile of    *)
(* every patient it has a row for, and the columns its schema lacks.       *)
Contents(profs, missing) == [profs |-> profs, missing |-> missing]

FileOf(contents) ==
    [index |-> DOMAIN contents.profs,
     columns |-> BsfabCols \ contents.missing,
     at |-> [p \in DOMAIN contents.profs |->
                [c \in BsfabCols \ contents.missing |->
                    RowOf(p, contents.profs[p])[c]]]]

(* The first patient ranges over every profile, the second over two, the   *)
(* others over one.                                                        *)
ProfilesOf(p) ==
    IF p = 0 THEN Profiles
    ELSE IF p = 1
    THEN {Profile("2", "70", "1", {}, {}), Profile("2", "70", "1", {6}, {})}
    ELSE {Profile("2", "70", "1", {}, {})}

(* The files with the full schema *)
BsfabContents ==
    {Contents(f, {}) :
        f \in UNION {{f \in [S -> Profiles] :
                         \A p \in S : f[p] \in ProfilesOf(p)} :
                        S \in SUBSET Patients}}

----------------------------------------------------------------------------
(* The claim files.  A claim frame is a record [index, columns, rows]: the *)
(* names of the index, the other columns, and the sequence of rows, each a *)
(* function of the index and column names.  bene_id, the claim id and the  *)
(* year are numbers, every other cell a string ("" an empty code cell).    *)

FamilySet == {"hcpcs", "icd9_dx", "icd9_sg"}
OkDataTypes == {"carc", "carl", "ipc", "ipr", "med", "opc", "opr"}

MedCols == {"bene_id", "medparid", "admsndt"}
              \cup NumberedCols("dgnscd") \cup NumberedCols("prcdrcd")
CarlCols == {"bene_id", "clm_id", "hcpcs_cd", "line_icd_dgns_cd"}

(* all_cols, the schema of the claim file of a dataset *)
AllCols(data_type) == IF data_type = "med" THEN MedCols ELSE CarlCols

Range(seq) == {seq[i] : i \in DOMAIN seq}

RECURSIVE Flatten(_)
Flatten(seqs) ==
    IF seqs = <<>> THEN <<>> ELSE Head(seqs) \o Flatten(Tail(seqs))

RECURSIVE SortedSeq(_)
SortedSeq(S) ==
    IF S = {} THEN <<>>
    ELSE LET m == CHOOSE x \in S : \A y \in S : x <= y
         IN <<m>> \o SortedSeq(S \ {m})

(* regexes[i] of a dataset *)
Regexes(data_type, i) ==
    IF i = "hcpcs" THEN "^hcpcs_cd$"
    ELSE IF i = "icd9_sg"
    THEN (IF data_type = "med" THEN "^prcdrcd(\\d+)$"
          ELSE "^icd_prcdr_cd(\\d+)$")
    ELSE IF data_type = "carl" THEN "icd_dgns_cd(\\d*)$"
    ELSE IF data_type = "med" THEN "^dgnscd(\\d+)$"
    ELSE "^icd_dgns_cd(\\d+)$"

(* Code specifications: Lit(text) a string, Re(text) a compiled pattern. *)
get_pattern(obj) == obj.text

CodeTails == {"", "0", "2"}

(* col.str.contains(code) on one cell *)
StrContains(cell, pattern) ==
    CASE pattern = "^41" -> \E t \in CodeTails : cell = "41" \o t
      [] pattern = "410" -> \E a \in {"", "4"}, b \in {"", "0"} :
                               cell = a \o "410" \o b
      [] OTHER -> FALSE

CellMatches(cell, code) ==
    IF code.kind = "re" THEN StrContains(cell, code.text)
    ELSE cell = code.text

(* (cl[cols[key]] == code).any(axis=1) on one row, and its pattern form *)
RowMatches(row, columns, code) ==
    \E c \in columns : CellMatches(row[c], code)

----------------------------------------------------------------------------
(* _search_for_codes_single_year: the columns of one pass *)

NoMax == {}

RegexCols(data_type, i) ==
    {x \in AllCols(data_type) : ReGroup1(Regexes(data_type, i), x) # {}}

(* lines 1910-1914 *)
FoundCols(data_type, i, codes) ==
    IF codes[i] # <<>> THEN RegexCols(data_type, i) ELSE {}

MaxColsCapIgnored(data_type, i, codes, max_cols) ==
    FoundCols(data_type, i, codes)

(* lines 1940-1944 *)
MaxColsCap(data_type, i, codes, max_cols) ==
    IF max_cols[i] # NoMax
    THEN {x \in AllCols(data_type) :
             \E g \in ReGroup1(Regexes(data_type, i), x) :
                 \A n \in max_cols[i] : g <= n}
    ELSE FoundCols(data_type, i, codes)

(* int(m[1]) of a group without a digit *)
IntOfEmpty(data_type, i, max_cols) ==
    /\ max_cols[i] # NoMax
    /\ \E x \in AllCols(data_type) : 0 \in ReGroup1(Regexes(data_type, i), x)

PlId(year) == IF year < BoundaryYear THEN "ehic" ELSE "bene_id"

(* claim_date_cols, lines 1916-1920 *)
claim_date_cols ==
    [data_type \in {"med", "carc", "ipc", "opc"} |->
        IF data_type = "med" THEN "admsndt" ELSE "from_dt"]

search_cols(data_type, year, ytype, codes, max_cols, keep_vars) ==
    LET cl_ids == {x \in AllCols(data_type) :
                      ReGroup1("^medparid$|^clm_id$|^claimindex$", x) # {}}
    IN [err |-> IF ytype = "age" /\ data_type \notin DOMAIN claim_date_cols
                THEN "KeyError"
                ELSE IF IntOfEmpty(data_type, "icd9_dx", max_cols)
                   \/ IntOfEmpty(data_type, "icd9_sg", max_cols)
                THEN "ValueError"
                ELSE IF Cardinality(cl_ids) # 1 THEN "AssertionError"
                ELSE "",
        cl_id |-> cl_ids,
        pl_id |-> PlId(year),
        cl_date |-> IF ytype = "age" /\ data_type \in DOMAIN claim_date_cols
                    THEN {claim_date_cols[data_type]} ELSE {},
        keep_vars |-> {x \in AllCols(data_type) :
                          str_in_keep_vars(x, keep_vars)},
        hcpcs |-> FoundCols(data_type, "hcpcs", codes),
        icd9_dx |-> MaxColsCap(data_type, "icd9_dx", codes, max_cols),
        icd9_sg |-> MaxColsCap(data_type, "icd9_sg", codes, max_cols)]

(* lines 1946-1947 *)
cols_toload(cols) ==
    cols.cl_id \cup {cols.pl_id} \cup cols.cl_date \cup cols.keep_vars
        \cup cols.hcpcs \cup cols.icd9_dx \cup cols.icd9_sg

(* One row group read with columns=cols_toload and set_index(pl_id) *)
ReadRowGroup(group, toload, pl_id) ==
    [index |-> {pl_id},
     columns |-> toload \ {pl_id},
     rows |-> [i \in DOMAIN group |-> [c \in toload |-> group[i][c]]]]

----------------------------------------------------------------------------
(* The patient-filter source.  The resolved pl_ids_to_filter is a record   *)
(* [isNone, keys, columns, rows]: the index labels in row order, the       *)
(* columns, and the rows over these columns.                               *)

NoFilter == [isNone |-> TRUE, keys |-> <<>>, columns |-> {}, rows |-> <<>>]

PlNone == [kind |-> "none"]
PlIndex(name, values) == [kind |-> "index", name |-> name, values |-> values]
PlFrame(names, rows) == [kind |-> "frame", names |-> names, rows |-> rows]

(* _search_for_codes_type_check, lines 1155-1172 *)
PlCols(source) == source.names \cap {"ehic", "bene_id"}

(* pl.reset_index()[pl_cols].copy(): the rows are labelled 0, 1, ... *)
FilterOfFrame(source) ==
    [isNone |-> FALSE,
     keys |-> [i \in DOMAIN source.rows |-> i - 1],
     columns |-> PlCols(source),
     rows |-> [i \in DOMAIN source.rows |->
                  [c \in PlCols(source) |-> source.rows[i][c]]]]

(* pd.DataFrame(index=pl_ids_to_filter), lines 1990-1992 *)
FilterOfIndex(source) ==
    [isNone |-> FALSE,
     keys |-> source.values,
     columns |-> {},
     rows |-> [i \in DOMAIN source.values |-> <<>>]]

(* The filter taken from the stored patient table, lines 1954-1989 *)
FilterOfStoredPlCalendar(stored, year) ==
    LET rows == {k \in stored.index : k[2] = year}
        kept == IF "match" \in stored.columns
                THEN {k \in rows : stored.at[k]["match"] = "True"}
                ELSE rows
        keys == SortedSeq({k[1] : k \in kept})
    IN [err |-> IF rows = {} THEN "KeyError" ELSE "",
        df |-> [isNone |-> FALSE, keys |-> keys, columns |-> {},
                rows |-> [i \in DOMAIN keys |-> <<>>]]]

(* In age mode, lines 1961-1986: the rows of this year and of the year     *)
(* before it (a label of range(year - 1, year + 1) that the table lacks    *)
(* selects nothing), the year level dropped, the column bene_dob kept.     *)
(* pl.loc[pl.index.drop_duplicates()] selects, for each distinct label,    *)
(* every row that carries it, so a patient with a row in both years keeps  *)
(* both.                                                                   *)
FilterOfStoredPlAge(stored, year) ==
    LET rows == {k \in stored.index : k[2] \in {year - 1, year}}
        kept == IF "match" \in stored.columns
                THEN {k \in rows : stored.at[k]["match"] = "True"}
                ELSE rows
        labels == SortedSeq({k[1] : k \in kept})
        pairs == Flatten([i \in DOMAIN labels |->
                    LET ys == SortedSeq({k[2] : k \in {x \in kept :
                                            x[1] = labels[i]}})
                    IN [j \in DOMAIN ys |-> <<labels[i], ys[j]>>]])
    IN IF "bene_dob" \notin stored.columns
       THEN [err |-> "KeyError", df |-> NoFilter]
       ELSE [err |-> "",
             df |-> [isNone |-> FALSE,
                     keys |-> [i \in DOMAIN pairs |-> pairs[i][1]],
                     columns |-> {"bene_dob"},
                     rows |-> [i \in DOMAIN pairs |->
                                  [bene_dob |->
                                      stored.at[pairs[i]]["bene_dob"]]]]]

FilterOfStoredPl(stored, year, ytype) ==
    IF ytype = "age" THEN FilterOfStoredPlAge(stored, year)
    ELSE FilterOfStoredPlCalendar(stored, year)

ResolveFilter(source, stored, year, ytype) ==
    IF source.kind = "none" /\ ~stored.isNone
    THEN FilterOfStoredPl(stored, year, ytype)
    ELSE [err |-> "",
          df |-> IF source.kind = "index" THEN FilterOfIndex(source)
                 ELSE IF source.kind = "frame" THEN FilterOfFrame(source)
                 ELSE NoFilter]

----------------------------------------------------------------------------
(* _search_for_codes_df_inner *)

TheOne(S) == CHOOSE x \in S : TRUE

(* cl.join(pl_ids_to_filter, how='inner'): the rows of cl paired with the  *)
(* rows of the filter whose index label equals the row's index value.      *)
RECURSIVE JoinRows(_, _, _)
JoinRows(rows, idx, filter) ==
    IF rows = <<>> THEN <<>>
    ELSE LET r == Head(rows)
             hits == SelectSeq([j \in DOMAIN filter.keys |-> j],
                               LAMBDA j : filter.keys[j] = r[idx])
         IN [n \in DOMAIN hits |-> r @@ filter.rows[hits[n]]]
                \o JoinRows(Tail(rows), idx, filter)

JoinFilter(df, filter) ==
    IF df.columns \cap filter.columns # {}
    THEN [err |-> "ValueError", df |-> df]
    ELSE [err |-> "",
          df |-> [index |-> df.index,
                  columns |-> df.columns \cup filter.columns,
                  rows |-> JoinRows(df.rows, TheOne(df.index), filter)]]

Searched(codes, cols) == {key \in FamilySet : cols[key] # {}}

(* cols_todrop of every pass of the loop over the families *)
ColsTodrop(codes, cols) ==
    UNION {cols[key] \ cols.keep_vars : key \in Searched(codes, cols)}

(* A match that tests each code against the columns of every family *)
CollapsedMatchAcrossFamilies(rows, i, codes, cols) ==
    \E key \in Searched(codes, cols) : \E code \in Range(codes[key]) :
        \E other \in Searched(codes, cols) :
            RowMatches(rows[i], cols[other], code)

(* collapse_codes: cl.loc[mask, 'match'] = True, by the rows of the mask *)
CollapsedMatch(rows, i, codes, cols) ==
    \E key \in Searched(codes, cols) : \E code \in Range(codes[key]) :
        RowMatches(rows[i], cols[key], code)

(* idx = cl.index[mask]; cl.loc[idx, label] = True, by the claim ids of    *)
(* the mask                                                                *)
LabelColumn(rows, i, cl_id, label, codes, cols) ==
    \E key \in Searched(codes, cols) : \E code \in Range(codes[key]) :
        /\ get_pattern(code) = label
        /\ \E j \in DOMAIN rows :
              /\ RowMatches(rows[j], cols[key], code)
              /\ rows[j][cl_id] = rows[i][cl_id]

all_created_cols(codes, cols) ==
    {get_pattern(code) :
        code \in UNION {Range(codes[key]) : key \in Searched(codes, cols)}}

RenameCol(c, rename) == IF c \in DOMAIN rename THEN rename[c] ELSE c

(* The month and day of an admission date and of a date of birth; NaT the  *)
(* missing date                                                            *)
AdmDates == {"03-01", "09-01"}

NaT == <<0, 0>>

MonthDay(date) ==
    CASE date = "03-01" -> <<3, 1>>
      [] date = "09-01" -> <<9, 1>>
      [] date = "1940-02-29" -> <<2, 29>>
      [] date = "1941-06-15" -> <<6, 15>>
      [] OTHER -> NaT

IsLeap(year) == year % 4 = 0 /\ (year % 100 # 0 \/ year % 400 = 0)

DaysIn(year, month) ==
    CASE month = 2 -> IF IsLeap(year) THEN 29 ELSE 28
      [] month \in {4, 6, 9, 11} -> 30
      [] OTHER -> 31

(* pd.to_datetime({'year': year, 'month': ..., 'day': ...}) raises         *)
(* ValueError when some day does not exist in the year.                    *)
ToDatetimeRaises(series, year) ==
    \E i \in DOMAIN series :
        series[i] # NaT /\ series[i][2] > DaysIn(year, series[i][1])

(* series.mask((month == 2) & (day == 29), pd.to_datetime(f'{year}-03-01')) *)
MaskEveryDate(series) == [i \in DOMAIN series |-> <<3, 1>>]

MaskLeapDay(series) ==
    [i \in DOMAIN series |->
        IF series[i] = <<2, 29>> THEN <<3, 1>> ELSE series[i]]

(* _dates_to_year on a series of (month, day): the months and days of the  *)
(* series of dates in the year                                             *)
dates_to_year(series, year) ==
    IF ~ToDatetimeRaises(series, year) THEN series
    ELSE MaskLeapDay(series)

(* cl[cols['cl_date']] >= birthday, the admission being a date of the      *)
(* file's year; a missing birthday compares False.                         *)
OlderAfterBirthday(adm, birthday) ==
    /\ birthday # NaT
    /\ LET a == MonthDay(adm)
       IN a[1] > birthday[1] \/ (a[1] = birthday[1] /\ a[2] > birthday[2])

Older(adm, birthday) ==
    /\ birthday # NaT
    /\ LET a == MonthDay(adm)
       IN a[1] > birthday[1] \/ (a[1] = birthday[1] /\ a[2] >= birthday[2])

(* Lines 1746-1761: the column older, bene_dob dropped, and the rows of    *)
(* the first and of the last year selected by it                           *)
AgeRows(rows, cols, year, ys) ==
    LET birthdays == dates_to_year(
                         [i \in DOMAIN rows |-> MonthDay(rows[i]["bene_dob"])],
                         year)
        aged == [i \in DOMAIN rows |->
                    [c \in (DOMAIN rows[i] \ {"bene_dob"}) \cup {"older"} |->
                        IF c = "older"
                        THEN Bool(Older(rows[i][TheOne(cols.cl_date)],
                                        birthdays[i]))
                        ELSE rows[i][c]]]
    IN IF year = MinYear(ys)
       THEN SelectSeq(aged, LAMBDA r : r["older"] = "True")
       ELSE IF year = MaxYear(ys)
       THEN SelectSeq(aged, LAMBDA r : r["older"] = "False")
       ELSE aged

search_for_codes_df_inner(df, codes, cols, rename, collapse_codes, filter,
                          ytype, year, ys) ==
    LET joined == IF filter.isNone THEN [err |-> "", df |-> df]
                  ELSE JoinFilter(df, filter)
        cl_id == TheOne(cols.cl_id)
        age == ytype = "age"
        rows == IF age THEN AgeRows(joined.df.rows, cols, year, ys)
                ELSE joined.df.rows
        kept == (IF age
                 THEN ((joined.df.columns \cup joined.df.index)
                           \ {"bene_dob"}) \cup {"older"}
                 ELSE joined.df.columns \cup joined.df.index)
                    \ ColsTodrop(codes, cols)
        created == all_created_cols(codes, cols)
        newcols == IF collapse_codes THEN kept \cup {"match"}
                   ELSE {RenameCol(c, rename) :
                            c \in kept \cup created \cup {"match"}}
        Cell(i, c) ==
            IF c = "match"
            THEN Bool(IF collapse_codes
                      THEN CollapsedMatch(rows, i, codes, cols)
                      ELSE \E label \in created :
                              LabelColumn(rows, i, cl_id, label, codes, cols))
            ELSE IF ~collapse_codes /\ c \in created
            THEN Bool(LabelColumn(rows, i, cl_id, c, codes, cols))
            ELSE rows[i][c]
        Source(n) == IF collapse_codes THEN n
                     ELSE CHOOSE c \in kept \cup created \cup {"match"} :
                              RenameCol(c, rename) = n
    IN IF joined.err # "" THEN joined
       ELSE IF joined.df.index \cap joined.df.columns # {}
       THEN [err |-> "ValueError", df |-> joined.df]
       ELSE IF age /\ "bene_dob" \notin joined.df.columns
       THEN [err |-> "KeyError", df |-> joined.df]
       ELSE [err |-> "",
             df |-> [index |-> {cols.pl_id},
                     columns |-> newcols \ {cols.pl_id},
                     rows |-> [i \in DOMAIN rows |->
                                  [n \in newcols |-> Cell(i, Source(n))]]]]

----------------------------------------------------------------------------
(* _search_for_codes_single_year on a claim file, a sequence of row groups *)

search_for_codes_single_year(year, data_type, source, codes, max_cols,
                             keep_vars, rename, collapse_codes, file,
                             stored, ytype, ys) ==
    LET cols == search_cols(data_type, year, ytype, codes, max_cols,
                            keep_vars)
        filter == ResolveFilter(source, stored, year, ytype)
        all_cl == [g \in DOMAIN file |->
                      search_for_codes_df_inner(
                          ReadRowGroup(file[g], cols_toload(cols), cols.pl_id),
                          codes, cols, rename, collapse_codes, filter.df,
                          ytype, year, ys)]
        failed == {g \in DOMAIN file : all_cl[g].err # ""}
        first == CHOOSE g \in failed : \A h \in failed : g <= h
        concat == Flatten([g \in DOMAIN file |-> all_cl[g].df.rows])
    IN IF cols.err # "" THEN [err |-> cols.err, df |-> EmptyFrame]
       ELSE IF filter.err # "" THEN [err |-> filter.err, df |-> EmptyFrame]
       ELSE IF failed # {} THEN [err |-> all_cl[first].err, df |-> EmptyFrame]
       ELSE [err |-> "",
             df |-> [index |-> all_cl[1].df.index,
                     columns |-> all_cl[1].df.columns \cup {"year"},
                     rows |-> [i \in DOMAIN concat |->
                                  concat[i] @@ ("year" :> year)]]]

----------------------------------------------------------------------------
(* _search_for_codes_type_check and _create_rename_dict *)

RenameNone == [kind |-> "none"]
RenameList(names) == [kind |-> "list", names |-> names]
RenameStr(name) == [kind |-> "str", name |-> name]
RenameDict(pairs) == [kind |-> "dict", pairs |-> pairs]

NoRename == [i \in FamilySet |-> RenameNone]

CodesOf(a) == [hcpcs |-> a.hcpcs, icd9_dx |-> a.icd9_dx, icd9_sg |-> a.icd9_sg]
MaxColsOf(a) == [icd9_dx |-> a.icd9_dx_max_cols,
                 icd9_sg |-> a.icd9_sg_max_cols]
KeepVarsOf(a, data_type) ==
    IF data_type \in DOMAIN a.keep_vars THEN a.keep_vars[data_type] ELSE {}

HasDuplicatesNever(seq) == FALSE

HasDuplicates(seq) == \E i, j \in DOMAIN seq : i < j /\ seq[i] = seq[j]

search_for_codes_type_check(a) ==
    LET all_codes == a.hcpcs \o a.icd9_dx \o a.icd9_sg
        labels == [i \in DOMAIN all_codes |-> get_pattern(all_codes[i])]
    IN IF a.data_types = <<>> THEN "TypeError"
       ELSE IF ~(Range(a.data_types) \subseteq OkDataTypes) THEN "ValueError"
       ELSE IF a.pl.kind = "frame" /\ PlCols(a.pl) = {} THEN "ValueError"
       ELSE IF a.pl.kind = "index" /\ a.pl.name \notin {"bene_id", "ehic"}
       THEN "AssertionError"
       ELSE IF ~(DOMAIN a.keep_vars \subseteq OkDataTypes) THEN "ValueError"
       ELSE IF ~a.collapse_codes /\ HasDuplicates(labels) THEN "ValueError"
       ELSE IF a.collapse_codes
               /\ \E i \in FamilySet : a.rename[i].kind # "none"
       THEN "ValueError"
       ELSE IF a.icd9_dx = <<>> /\ a.icd9_dx_max_cols # NoMax
       THEN "ValueError"
       ELSE IF a.icd9_sg = <<>> /\ a.icd9_sg_max_cols # NoMax
       THEN "ValueError"
       ELSE ""

(* _create_rename_dict_each for a list of names: the pairs (label, name) *)
(* _get_pattern(codes) on the list of codes: neither str nor pattern *)
GetPatternOfList(codes) == "TypeError"

create_rename_dict_each(codes, rename) ==
    IF rename.kind = "none" THEN [err |-> "", d |-> {}]
    ELSE IF rename.kind = "str"
    THEN (IF rename.name = "" THEN [err |-> "", d |-> {}]
          ELSE IF Len(codes) # 1 THEN [err |-> "AssertionError", d |-> {}]
          ELSE [err |-> GetPatternOfList(codes), d |-> {}])
    ELSE IF rename.kind = "dict"
    THEN (IF {p[1] : p \in rename.pairs}
                 \subseteq {get_pattern(codes[i]) : i \in DOMAIN codes}
          THEN [err |-> "", d |-> rename.pairs]
          ELSE [err |-> "AssertionError", d |-> {}])
    ELSE IF Len(codes) # Len(rename.names)
    THEN [err |-> "AssertionError", d |-> {}]
    ELSE [err |-> "",
          d |-> {<<get_pattern(codes[i]), rename.names[i]>> :
                    i \in DOMAIN codes}]

create_rename_dict(codes, rename) ==
    LET each == [i \in FamilySet |->
                    create_rename_dict_each(codes[i], rename[i])]
        pairs == UNION {each[i].d : i \in FamilySet}
        keys == {p[1] : p \in pairs}
        vals == {p[2] : p \in pairs}
    IN IF each["hcpcs"].err # "" THEN [err |-> each["hcpcs"].err, d |-> <<>>]
       ELSE IF each["icd9_dx"].err # ""
       THEN [err |-> each["icd9_dx"].err, d |-> <<>>]
       ELSE IF each["icd9_sg"].err # ""
       THEN [err |-> each["icd9_sg"].err, d |-> <<>>]
       ELSE IF Cardinality(keys) # Cardinality(pairs)
               \/ Cardinality(vals) # Cardinality(pairs)
       THEN [err |-> "AssertionError", d |-> <<>>]
       ELSE [err |-> "",
             d |-> [k \in keys |-> TheOne({p[2] : p \in {q \in pairs :
                                                             q[1] = k}})]]

(* search_for_codes, lines 1521-1524 *)
RenameOf(a) ==
    IF \E i \in FamilySet : a.rename[i].kind # "none"
    THEN create_rename_dict(CodesOf(a), a.rename)
    ELSE [err |-> "", d |-> <<>>]

(* The pass of the loop over data_types and self.years with number k *)
PassDataType(a, ys, k) == a.data_types[((k - 1) \div Len(ys)) + 1]
PassYear(ys, k) == ys[((k - 1) % Len(ys)) + 1]

RunPass(a, ys, ytype, k, file, stored) ==
    search_for_codes_single_year(
        PassYear(ys, k), PassDataType(a, ys, k), a.pl, CodesOf(a),
        MaxColsOf(a), KeepVarsOf(a, PassDataType(a, ys, k)), RenameOf(a).d,
        a.collapse_codes, file, stored, ytype, ys)

(* The frames of a dataset's passes, in the order of self.years *)
PassesOf(a, ys, seq, data_type) ==
    LET n == CHOOSE m \in DOMAIN a.data_types : a.data_types[m] = data_type
    IN [y \in DOMAIN ys |-> seq[(n - 1) * Len(ys) + y]]

(* The positions in self.years of years_ehic and of years_bene_id *)
years_ehic(ys) ==
    SelectSeq([i \in DOMAIN ys |-> i], LAMBDA i : ys[i] < BoundaryYear)
years_bene_id(ys) ==
    SelectSeq([i \in DOMAIN ys |-> i], LAMBDA i : ys[i] >= BoundaryYear)

(* The missing value of a cell: bene_id is a number, the rest strings. *)
NaNOf(c) == IF c = "bene_id" THEN -1 ELSE "NaN"

(* pd.concat(frames, sort=False): the union of the columns, the rows in    *)
(* order, a cell of a column the frame does not have missing.              *)
Concat(frames) ==
    LET cells == UNION {frames[i].columns \cup frames[i].index :
                           i \in DOMAIN frames}
    IN [index |-> frames[1].index,
        columns |-> cells \ frames[1].index,
        rows |-> Flatten([i \in DOMAIN frames |->
                    [j \in DOMAIN frames[i].rows |->
                        [c \in cells |->
                            IF c \in DOMAIN frames[i].rows[j]
                            THEN frames[i].rows[j][c] ELSE NaNOf(c)]]])]

(* A crosswalk, the bsfab file read with columns=['ehic'] and index        *)
(* bene_id, is a sequence of rows [bene_id, ehic].                         *)
(* df.merge(right, how='left', left_index=True, right_on='ehic'): every    *)
(* claim row once per crosswalk row with its ehic, the index taken from    *)
(* the crosswalk (bene_id), missing where the ehic has no crosswalk row;   *)
(* ehic becomes a column.                                                  *)
CrosswalkMerge(df, right) ==
    [index |-> {"bene_id"},
     columns |-> df.columns \cup {"ehic"},
     rows |-> Flatten([i \in DOMAIN df.rows |->
                 LET hits == SelectSeq(right,
                                 LAMBDA r : r.ehic = df.rows[i]["ehic"])
                 IN IF hits = <<>>
                    THEN <<df.rows[i] @@ ("bene_id" :> NaNOf("bene_id"))>>
                    ELSE [h \in DOMAIN hits |->
                             df.rows[i] @@ ("bene_id" :> hits[h].bene_id)]])]

(* self.pl.loc[(slice(None), year), 'ehic'].to_frame() *)
CrosswalkOfStoredPl(stored, year) ==
    LET keys == SortedSeq({k[1] : k \in {x \in stored.index : x[2] = year}})
    IN [err |-> IF "ehic" \notin stored.columns \/ keys = <<>>
                THEN "KeyError" ELSE "",
        right |-> [i \in DOMAIN keys |->
                      [bene_id |-> keys[i],
                       ehic |-> stored.at[<<keys[i], year>>]["ehic"]]]]

(* pf.read(columns=['ehic']).to_pandas().set_index('bene_id') has no       *)
(* bene_id column to index by; fastparquet reads the index by name.        *)
CrosswalkOfFile(engine, file) ==
    [err |-> IF engine = "pyarrow" THEN "KeyError" ELSE "", right |-> file]

ConvertEhic(a, ys) ==
    a.convert_ehic \/ (years_ehic(ys) # <<>> /\ years_bene_id(ys) # <<>>)

(* The years whose crosswalk file is read by the invocation *)
CrosswalkYears(a, ys, stored, engine) ==
    IF years_ehic(ys) = <<>> \/ ~ConvertEhic(a, ys) \/ ~stored.isNone THEN {}
    ELSE IF engine = "pyarrow" THEN {ys[years_ehic(ys)[1]]}
    ELSE {ys[years_ehic(ys)[k]] : k \in DOMAIN years_ehic(ys)}

search_for_codes_data_join(a, ys, frames, stored, engine, xw) ==
    LET ehic == years_ehic(ys)
        bene == years_bene_id(ys)
        own(data_type) == PassesOf(a, ys, frames, data_type)
        bene_frame(data_type) ==
            Concat([k \in DOMAIN bene |-> own(data_type)[bene[k]]])
        right(k) == IF ~stored.isNone
                    THEN CrosswalkOfStoredPl(stored, ys[ehic[k]])
                    ELSE CrosswalkOfFile(engine, xw[ys[ehic[k]]])
        ehic_frame(data_type) ==
            IF ConvertEhic(a, ys)
            THEN Concat([k \in DOMAIN ehic |->
                            CrosswalkMerge(own(data_type)[ehic[k]],
                                           right(k).right)])
            ELSE Concat([k \in DOMAIN ehic |-> own(data_type)[ehic[k]]])
        failed(e) == [err |-> e, tables |-> <<>>]
    IN IF ehic = <<>>
       THEN [err |-> "",
             tables |-> [data_type \in Range(a.data_types) |->
                            bene_frame(data_type)]]
       ELSE IF ConvertEhic(a, ys) /\ right(1).err # ""
       THEN failed(right(1).err)
       ELSE IF ConvertEhic(a, ys)
               /\ \E k \in DOMAIN ehic : right(k).err # ""
       THEN failed("KeyError")
       ELSE IF bene = <<>> THEN failed("KeyError")
       ELSE [err |-> "",
             tables |-> [data_type \in Range(a.data_types) |->
                            Concat(<<ehic_frame(data_type),
                                     bene_frame(data_type)>>)]]

(* data[data_type].set_index('year', append=True) *)
set_index_year(df) ==
    [index |-> df.index \cup {"year"},
     columns |-> df.columns \ {"year"},
     rows |-> df.rows]

NoCl == [isNone |-> TRUE, tables |-> <<>>]
StoredCl(tables) == [isNone |-> FALSE, tables |-> tables]

----------------------------------------------------------------------------
(* The inputs of search_for_codes *)

Cells(stub, filled) ==
    [c \in NumberedCols(stub) |->
        IF c \in DOMAIN filled THEN filled[c] ELSE ""]

MedRow(p, id, dx, sg) ==
    ("bene_id" :> p) @@ ("medparid" :> id) @@ ("admsndt" :> "09-01")
        @@ Cells("dgnscd", dx) @@ Cells("prcdrcd", sg)

CarlRow(p, id, hcpcs, dx) ==
    ("bene_id" :> p) @@ ("clm_id" :> id)
        @@ ("hcpcs_cd" :> hcpcs) @@ ("line_icd_dgns_cd" :> dx)

(* The row groups of a file of two rows: one group or two *)
RowGroups(first, second) == {<<<<first, second>>>>, <<<<first>>, <<second>>>>}

(* MedPAR: a stay of the first patient with codes, then a stay without     *)
(* codes of the first or the second patient; medparid is unique.           *)
MedFiles ==
    UNION {RowGroups(MedRow(0, 1, dx[1], dx[2]), MedRow(p, 2, <<>>, <<>>)) :
           dx \in {<<("dgnscd1" :> "410"), <<>>>>,
                   <<("dgnscd1" :> "412")
                        @@ (NumberedCol("dgnscd", NumCodeCols) :> "410"),
                     ("prcdrcd1" :> "3601")>>},
           p \in {0, 1}}

(* Carrier line file: a line of a claim of the first patient with codes,   *)
(* then a line without codes, of the same claim or of a claim of the       *)
(* second patient; clm_id repeats on the lines of a claim.                 *)
CarlFiles ==
    UNION {RowGroups(CarlRow(0, 1, c[1], c[2]),
                     CarlRow(IF id = 1 THEN 0 ELSE 1, id, "", "")) :
           c \in {<<"99213", "410">>, <<"", "412">>},
           id \in {1, 2}}

(* MedPAR files that differ in the admission dates of their two stays *)
AgeMedFiles ==
    {<<<<[MedRow(0, 1, ("dgnscd1" :> "410"), <<>>)
            EXCEPT !["admsndt"] = d[1]],
         [MedRow(1, 2, <<>>, <<>>) EXCEPT !["admsndt"] = d[2]]>>>> :
        d \in AdmDates \X AdmDates}

(* A file whose two rows carry the same medparid: the first with a code    *)
(* and an admission before the birthday, the second without codes after it *)
SharedIdFile ==
    <<<<[MedRow(0, 1, ("dgnscd1" :> "410"), <<>>)
           EXCEPT !["admsndt"] = "03-01"],
        MedRow(0, 1, <<>>, <<>>)>>>>

(* MedPAR files whose first stay holds, in its first diagnosis and first   *)
(* procedure column, a code, a longer code that contains it, or a code of  *)
(* the other family                                                        *)
CrossCodeFiles ==
    {<<<<MedRow(0, 1, ("dgnscd1" :> c[1]), ("prcdrcd1" :> c[2])),
         MedRow(1, 2, <<>>, <<>>)>>>> :
        c \in {"410", "4100", "3601", ""} \X {"", "3601", "410"}}

ClaimFiles(data_type) ==
    IF data_type = "med"
    THEN MedFiles \cup AgeMedFiles \cup {SharedIdFile} \cup CrossCodeFiles
    ELSE CarlFiles

(* Before 2006 the files identify a patient by ehic instead of bene_id. *)
EhicRow(row) ==
    [c \in (DOMAIN row \ {"bene_id"}) \cup {"ehic"} |->
        IF c = "ehic" THEN EhicOf(row["bene_id"]) ELSE row[c]]

EhicFile(file) ==
    [g \in DOMAIN file |-> [i \in DOMAIN file[g] |-> EhicRow(file[g][i])]]

ClaimFilesOf(data_type, year) ==
    IF year < BoundaryYear
    THEN {EhicFile(file) : file \in ClaimFiles(data_type)}
    ELSE ClaimFiles(data_type)

(* The crosswalk of a year: every patient, or every patient but the first. *)
FullCrosswalk == [i \in 1 .. NumPatients |->
                    [bene_id |-> i - 1, ehic |-> EhicOf(i - 1)]]

CrosswalkFiles == {FullCrosswalk, Tail(FullCrosswalk)}

Crosswalks ==
    UNION {[S -> CrosswalkFiles] :
              S \in SUBSET {BoundaryYear - k : k \in 1 .. NumYears}}

SArgs(dts, source, codes, maxes, kv, collapse, rename) ==
    [data_types |-> dts, pl |-> source,
     hcpcs |-> codes[1], icd9_dx |-> codes[2], icd9_sg |-> codes[3],
     icd9_dx_max_cols |-> maxes[1], icd9_sg_max_cols |-> maxes[2],
     keep_vars |-> kv, collapse_codes |-> collapse, rename |-> rename,
     convert_ehic |-> TRUE]

NoSearchArgs ==
    SArgs(<<>>, PlNone, <<<<>>, <<>>, <<>>>>, <<NoMax, NoMax>>, <<>>,
          TRUE, NoRename)

DxRe == <<<<>>, <<Re("^41")>>, <<>>>>
DxLit == <<<<>>, <<Lit("410")>>, <<>>>>
DxBoth == <<<<>>, <<Lit("410"), Re("^41")>>, <<>>>>
DxTwice == <<<<>>, <<Lit("410"), Re("410")>>, <<>>>>
AllFamilies == <<<<Lit("99213")>>, <<Lit("410")>>, <<Lit("3601")>>>>
NoCodes == <<<<>>, <<>>, <<>>>>

RenameDx(names) == [NoRename EXCEPT !["icd9_dx"] = RenameList(names)]
KeepDx == ("med" :> {Re("^dgnscd(\\d+)$")})

SingleDataTypes == {<<"med">>, <<"carl">>}

IndexSources ==
    {PlIndex("bene_id", SortedSeq(S)) : S \in (SUBSET Patients) \ {{}}}

FrameSources ==
    {PlFrame({"bene_id"}, <<[bene_id |-> 1]>>),
     PlFrame({"ehic"}, <<[ehic |-> "E1"]>>),
     PlFrame({"sex"}, <<[sex |-> "2"]>>)}

(* The searches that differ in the codes and in collapse_codes *)
MatchArgs ==
    {SArgs(dts, PlNone, codes, <<NoMax, NoMax>>, <<>>, collapse, NoRename) :
        dts \in SingleDataTypes,
        codes \in {DxRe, DxBoth, AllFamilies, DxTwice},
        collapse \in BOOLEAN}

(* ... in the rename argument *)
RenameArgs ==
    {SArgs(dts, PlNone, DxBoth, <<NoMax, NoMax>>, <<>>, collapse,
           RenameDx(names)) :
        dts \in SingleDataTypes, collapse \in BOOLEAN,
        names \in {<<"ami", "any41">>, <<"ami">>}}
    \cup {SArgs(<<"med">>, PlNone, DxRe, <<NoMax, NoMax>>, <<>>, collapse,
                [NoRename EXCEPT !["icd9_dx"] = value]) :
             collapse \in BOOLEAN,
             value \in {RenameStr("ami"), RenameDict({<<"^41", "ami">>}),
                        RenameDict({<<"480", "pneumonia">>})}}

(* ... in the patient-filter source *)
FilterArgs ==
    {SArgs(<<"med">>, source, DxRe, <<NoMax, NoMax>>, <<>>, collapse,
           NoRename) :
        source \in IndexSources \cup FrameSources
                       \cup {PlIndex("sex", <<0>>)},
        collapse \in BOOLEAN}

(* ... in the maximum column numbers and keep_vars *)
MaxColsArgs ==
    {SArgs(dts, PlNone, c[1], c[2], kv, collapse, NoRename) :
        dts \in SingleDataTypes,
        c \in {<<DxLit, <<{1}, NoMax>>>>, <<AllFamilies, <<{1}, {1}>>>>,
               <<DxBoth, <<NoMax, NoMax>>>>},
        kv \in {<<>>, KeepDx},
        collapse \in BOOLEAN}
    \cup {SArgs(<<"med">>, PlNone, NoCodes, <<{1}, NoMax>>, <<>>, TRUE,
                NoRename),
          SArgs(<<"xyz">>, PlNone, DxRe, <<NoMax, NoMax>>, <<>>, TRUE,
                NoRename)}

SearchArgs == MatchArgs \cup RenameArgs \cup FilterArgs \cup MaxColsArgs

----------------------------------------------------------------------------
(* The state machine *)

NoPl == [isNone |-> TRUE, index |-> {}, columns |-> {}, at |-> <<>>]

(* self.nobs_dropped is first assigned by get_cohort. *)
NoNobsDropped == [isNone |-> TRUE, of |-> <<>>]
StoredNobsDropped(d) == [isNone |-> FALSE, of |-> d]
StoredPl(df) == [isNone |-> FALSE, index |-> df.index,
                 columns |-> df.columns, at |-> df.at]

NoCall == [op |-> ""]

Init ==
    /\ pc = "new"
    /\ call = NoCall
    /\ years = <<>>
    /\ year_type = "calendar"
    /\ parquet_engine = "pyarrow"
    /\ pl = NoPl
    /\ bsfab = <<>>
    /\ args = NoArgs
    /\ extracted_dfs = <<>>
    /\ nobs_dropped_loc = <<>>
    /\ nobs_dropped = NoNobsDropped
    /\ sargs = NoSearchArgs
    /\ clfiles = <<>>
    /\ data = <<>>
    /\ crosswalk = <<>>
    /\ cl = NoCl
    /\ err = ""

(* list(years) != list(range(min(years), max(years) + 1)), lines 158-160; *)
(* min of an empty list raises ValueError as well.                         *)
NotContinuousAsSet(ys) ==
    ys = <<>> \/ {ys[i] : i \in DOMAIN ys}
                    # {y \in MinYear(ys) .. MaxYear(ys) : TRUE}

NotContinuous(ys) ==
    ys = <<>> \/ ys # YearList(MinYear(ys), MaxYear(ys) - MinYear(ys) + 1)

(* MedicareDF.__init__ *)
ConstructWith(ys, ytype, engine) ==
    /\ pc = "new"
    /\ call' = [op |-> "__init__", years |-> ys, year_type |-> ytype,
                parquet_engine |-> engine]
    /\ IF ytype = "age" /\ Len(ys) = 1
       THEN /\ pc' = "error" /\ err' = "ValueError"
            /\ UNCHANGED <<years, year_type, parquet_engine>>
       ELSE IF ytype = "age" /\ NotContinuous(ys)
       THEN /\ pc' = "error" /\ err' = "ValueError"
            /\ UNCHANGED <<years, year_type, parquet_engine>>
       ELSE IF engine \notin {"pyarrow", "fastparquet"}
       THEN /\ pc' = "error" /\ err' = "ValueError"
            /\ UNCHANGED <<years, year_type, parquet_engine>>
       ELSE /\ pc' = "idle" /\ years' = ys /\ year_type' = ytype
            /\ parquet_engine' = engine
            /\ UNCHANGED err
    /\ UNCHANGED <<pl, bsfab, args, extracted_dfs>>
    /\ UNCHANGED nobsVars
    /\ UNCHANGED searchVars

(* The constructor with the default parquet_engine *)
Construct(ys, ytype) == ConstructWith(ys, ytype, "pyarrow")

(* _get_cohort_type_check.  The codebook of bsfab gives the descriptions   *)
(* of the sex and race codes.                                              *)
GenderCodebook ==
    [text \in {"unknown", "male", "female", "u", "m", "f"} |->
        CASE text \in {"unknown", "u"} -> "0"
          [] text \in {"male", "m"} -> "1"
          [] OTHER -> "2"]

CheckGender(gender) ==
    IF gender = None THEN [err |-> "", val |-> gender]
    ELSE IF gender \in {"0", "1", "2"} THEN [err |-> "", val |-> gender]
    ELSE IF gender \in DOMAIN GenderCodebook
    THEN [err |-> "", val |-> GenderCodebook[gender]]
    ELSE [err |-> "ValueError", val |-> gender]

(* The codes whose description contains the text *)
RaceMatches(text) ==
    CASE text = "white" -> {"1"}
      [] text = "black" -> {"2"}
      [] text = "asian" -> {"4"}
      [] text = "a" -> {"2", "4", "5", "6"}
      [] text = "n" -> {"0", "4", "5", "6"}
      [] OTHER -> {}

CheckRaces(races) ==
    IF races = NoneVal THEN [err |-> "", val |-> races]
    ELSE IF \A x \in races : x \in {"0", "1", "2", "3", "4", "5", "6"}
    THEN [err |-> "", val |-> races]
    ELSE IF \E x \in races : Cardinality(RaceMatches(x)) # 1
    THEN [err |-> "AssertionError", val |-> races]
    ELSE [err |-> "", val |-> UNION {RaceMatches(x) : x \in races}]

AllowedJoin == {"left", "right", "inner", "outer"}

get_cohort_type_check_lenient(a) == [err |-> "", args |-> a]

get_cohort_type_check(a) ==
    LET g == CheckGender(a.gender)
        r == CheckRaces(a.races)
    IN [err |-> IF g.err # "" THEN g.err
                ELSE IF r.err # "" THEN r.err
                ELSE IF a.join \notin AllowedJoin THEN "ValueError"
                ELSE "",
        args |-> [a EXCEPT !.gender = g.val, !.races = r.val]]

(* get_cohort up to the loop over the years *)
GetCohort(a) ==
    /\ pc = "idle"
    /\ LET checked == get_cohort_type_check(a)
       IN IF checked.err # ""
          THEN /\ pc' = "error" /\ err' = checked.err /\ args' = a
               /\ UNCHANGED <<extracted_dfs, nobs_dropped_loc>>
          ELSE /\ pc' = "gc_extract" /\ args' = checked.args
               /\ extracted_dfs' = <<>>
               /\ nobs_dropped_loc' =
                      [year \in {years[i] : i \in DOMAIN years} |-> <<>>]
               /\ UNCHANGED err
    /\ UNCHANGED <<call, years, year_type, parquet_engine, pl, bsfab,
                   nobs_dropped>>
    /\ UNCHANGED searchVars

(* self.nobs_dropped while the loop runs: the loop fills the dictionary    *)
(* created at line 835, the attribute is assigned after the merge.         *)
NobsDroppedSharedWithLoop(stored, local) == StoredNobsDropped(local)

NobsDroppedDuringLoop(stored, local) == stored

(* One pass of the loop over self.years *)
ExtractYear(contents) ==
    /\ pc = "gc_extract"
    /\ Len(extracted_dfs) < Len(years)
    /\ LET year == years[Len(extracted_dfs) + 1]
           file == FileOf(contents)
           toload == get_cohort_get_vars_toload(args, year_type, file.columns)
           r == get_cohort_extract_each_year(file, year, toload, args,
                                             year_type, years)
       IN /\ bsfab' = bsfab @@ (year :> contents)
          /\ IF r.err # ""
             THEN /\ pc' = "error" /\ err' = r.err
                  /\ UNCHANGED <<extracted_dfs, nobs_dropped_loc>>
             ELSE /\ extracted_dfs' = Append(extracted_dfs, r.df)
                  /\ nobs_dropped_loc' =
                         [nobs_dropped_loc EXCEPT ![year] = r.dropped]
                  /\ UNCHANGED <<pc, err>>
    /\ nobs_dropped' = NobsDroppedDuringLoop(nobs_dropped, nobs_dropped_loc')
    /\ UNCHANGED <<call, years, year_type, parquet_engine, pl, args>>
    /\ UNCHANGED searchVars

(* get_cohort after the loop: merge, reshape and store *)
FinishCohort ==
    /\ pc = "gc_extract"
    /\ Len(extracted_dfs) = Len(years)
    /\ LET r == get_cohort_merge(extracted_dfs, args, year_type, years)
       IN IF r.err # ""
          THEN /\ pc' = "error" /\ err' = r.err
               /\ UNCHANGED <<pl, nobs_dropped>>
          ELSE /\ pc' = "gc_done" /\ pl' = StoredPl(r.df) /\ UNCHANGED err
               /\ nobs_dropped' = IF args.dask THEN nobs_dropped
                                  ELSE StoredNobsDropped(nobs_dropped_loc)
    /\ UNCHANGED <<call, years, year_type, parquet_engine, bsfab, args,
                   extracted_dfs, nobs_dropped_loc>>
    /\ UNCHANGED searchVars

NextCohort ==
    \/ \E ys \in CohortYearLists : Construct(ys, "calendar")
    \/ \E a \in CohortArgs : GetCohort(a)
    \/ \E contents \in BsfabContents : ExtractYear(contents)
    \/ FinishCohort

SpecCohort == Init /\ [][NextCohort]_vars

(* The age-year specification: the same operations on age-mode objects *)
AgeYearLists == {YearList(BoundaryYear, n) : n \in 1 .. NumYears}

AgeFilterChoices ==
    {Filters(None, NoneVal, NoneVal, NoneVal, NoneVal),
     Filters(None, NoneVal, NoneVal, {"3"}, NoneVal),
     Filters(None, NoneVal, NoneVal, NoneVal, {"0"}),
     Filters("2", NoneVal, NoneVal, {"3"}, {"0"})}

AgeArgs ==
    {ArgsOf(f, j, k, FALSE) : f \in AgeFilterChoices, j \in JoinChoices,
                              k \in KeepVarsChoices}

NextAge ==
    \/ \E ys \in AgeYearLists : Construct(ys, "age")
    \/ \E a \in AgeArgs : GetCohort(a)
    \/ \E contents \in BsfabContents : ExtractYear(contents)
    \/ FinishCohort

SpecAge == Init /\ [][NextAge]_vars

----------------------------------------------------------------------------
(* search_for_codes *)

(* search_for_codes up to the loop over data_types and self.years *)
SearchForCodes(a) ==
    /\ pc = "idle"
    /\ sargs' = a
    /\ clfiles' = <<>>
    /\ data' = <<>>
    /\ crosswalk' = <<>>
    /\ LET checked == search_for_codes_type_check(a)
       IN IF checked # ""
          THEN pc' = "error" /\ err' = checked
          ELSE IF RenameOf(a).err # ""
          THEN pc' = "error" /\ err' = RenameOf(a).err
          ELSE pc' = "sc_search" /\ UNCHANGED err
    /\ UNCHANGED <<call, years, year_type, parquet_engine, pl, bsfab, args,
                   extracted_dfs, cl>>
    /\ UNCHANGED nobsVars

(* self.pl after the statements that derive the patient filter from it    *)
(* (xs or loc, [], set_index, loc): each returns a new frame and self.pl   *)
(* is never assigned.                                                      *)
StoredPlFilteredInPlace(stored, year) ==
    LET keys == {k \in stored.index : k[2] = year}
    IN [stored EXCEPT !.index = keys, !.at = [k \in keys |-> stored.at[k]]]

StoredPlAfterFilter(stored, year) == stored

(* One pass of the loop: _search_for_codes_single_year on a claim file *)
SearchYear(file) ==
    /\ pc = "sc_search"
    /\ Len(data) < Len(sargs.data_types) * Len(years)
    /\ file \in ClaimFilesOf(PassDataType(sargs, years, Len(data) + 1),
                             PassYear(years, Len(data) + 1))
    /\ LET r == RunPass(sargs, years, year_type, Len(data) + 1, file, pl)
       IN /\ clfiles' = Append(clfiles, file)
          /\ IF r.err # ""
             THEN /\ pc' = "error" /\ err' = r.err
                  /\ UNCHANGED data
             ELSE /\ data' = Append(data, r.df)
                  /\ UNCHANGED <<pc, err>>
    /\ pl' = IF sargs.pl.kind = "none" /\ ~pl.isNone
             THEN StoredPlAfterFilter(pl, PassYear(years, Len(data) + 1))
             ELSE pl
    /\ UNCHANGED <<call, years, year_type, parquet_engine, bsfab, args,
                   extracted_dfs, sargs, crosswalk, cl>>
    /\ UNCHANGED nobsVars

(* Lines 1573-1577: cl.loc[~cl['older'], 'year'] -= 1, then older dropped *)
AgeYearUnadjusted(row) == row["year"]

AgeYear(row) ==
    IF row["older"] = "True" THEN row["year"] ELSE row["year"] - 1

age_adjust(df) ==
    [index |-> df.index,
     columns |-> df.columns \ {"older"},
     rows |-> [i \in DOMAIN df.rows |->
                  [c \in DOMAIN df.rows[i] \ {"older"} |->
                      IF c = "year" THEN AgeYear(df.rows[i])
                      ELSE df.rows[i][c]]]]

(* search_for_codes after the loop: join the years and store *)
FinishSearch(xw) ==
    /\ pc = "sc_search"
    /\ Len(data) = Len(sargs.data_types) * Len(years)
    /\ xw \in [CrosswalkYears(sargs, years, pl, parquet_engine)
                  -> CrosswalkFiles]
    /\ crosswalk' = xw
    /\ LET r == search_for_codes_data_join(sargs, years, data, pl,
                                           parquet_engine, xw)
           age == year_type = "age"
       IN IF r.err # ""
          THEN /\ pc' = "error" /\ err' = r.err /\ UNCHANGED cl
          ELSE IF age /\ \E data_type \in DOMAIN r.tables :
                            "older" \notin r.tables[data_type].columns
          THEN /\ pc' = "error" /\ err' = "KeyError" /\ UNCHANGED cl
          ELSE /\ pc' = "sc_done" /\ UNCHANGED err
               /\ cl' = StoredCl([data_type \in DOMAIN r.tables |->
                                     set_index_year(
                                         IF age
                                         THEN age_adjust(r.tables[data_type])
                                         ELSE r.tables[data_type])])
    /\ UNCHANGED <<call, years, year_type, parquet_engine, pl, bsfab, args,
                   extracted_dfs, sargs, clfiles, data>>
    /\ UNCHANGED nobsVars

NextSearch ==
    \/ \E ys \in CohortYearLists : Construct(ys, "calendar")
    \/ \E a \in SearchArgs : SearchForCodes(a)
    \/ \E file \in MedFiles \cup CarlFiles : SearchYear(file)
    \/ \E xw \in Crosswalks : FinishSearch(xw)

SpecSearch == Init /\ [][NextSearch]_vars

(* The specification of searches over years on both sides of 2006, with    *)
(* either parquet engine                                                   *)
EhicYearLists ==
    {YearList(BoundaryYear - k, n) : k \in 1 .. NumYears, n \in 1 .. NumYears}

EhicArgs ==
    {[SArgs(<<"med">>, PlNone, DxRe, <<NoMax, NoMax>>, <<>>, collapse,
            NoRename) EXCEPT !.convert_ehic = convert] :
        collapse \in BOOLEAN, convert \in BOOLEAN}

NextEhic ==
    \/ \E ys \in EhicYearLists, engine \in {"pyarrow", "fastparquet"} :
          ConstructWith(ys, "calendar", engine)
    \/ \E a \in EhicArgs : SearchForCodes(a)
    \/ \E file \in MedFiles \cup {EhicFile(f) : f \in MedFiles} :
          SearchYear(file)
    \/ \E xw \in Crosswalks : FinishSearch(xw)

SpecEhic == Init /\ [][NextEhic]_vars

(* The invocation returned or raised: its locals are gone and the object   *)
(* is ready for the next call.                                             *)
Return ==
    /\ pc \in {"gc_done", "sc_done", "error"}
    /\ years # <<>>
    /\ pc' = "idle"
    /\ err' = ""
    /\ args' = NoArgs
    /\ bsfab' = <<>>
    /\ extracted_dfs' = <<>>
    /\ nobs_dropped_loc' = <<>>
    /\ sargs' = NoSearchArgs
    /\ clfiles' = <<>>
    /\ data' = <<>>
    /\ crosswalk' = <<>>
    /\ UNCHANGED <<call, years, year_type, parquet_engine, pl, nobs_dropped, cl>>

(* The specification of invocations that follow one another on an object   *)
PipelineCohortArgs ==
    {ArgsOf(Filters(g, NoneVal, r, NoneVal, NoneVal), j, {}, FALSE) :
        g \in {None}, r \in {NoneVal}, j \in {"left", "cross"}}
    \cup {ArgsOf(Filters(g, NoneVal, r, NoneVal, NoneVal), "outer", {}, FALSE) :
             g \in {"female", "xyz", "5"}, r \in {{"white"}, {"a"}, {"zz"}}}

PipelineContents ==
    {Contents((0 :> Profile("2", "70", "1", {}, {}))
                 @@ (1 :> Profile("2", "70", "1", {}, {})), {}),
     Contents((0 :> Profile("1", "70", "1", {}, {})), {}),
     Contents((0 :> Profile("2", "70", "1", {}, {})), {"sex"})}

PipelineSearchArgs ==
    {SArgs(<<"med">>, PlNone, DxRe, <<NoMax, NoMax>>, <<>>, TRUE, NoRename),
     SArgs(<<"xyz">>, PlNone, DxRe, <<NoMax, NoMax>>, <<>>, TRUE, NoRename),
     SArgs(<<"med">>, PlNone, DxTwice, <<NoMax, NoMax>>, <<>>, FALSE,
           NoRename),
     SArgs(<<"med">>, PlNone, DxBoth, <<NoMax, NoMax>>, <<>>, TRUE,
           RenameDx(<<"ami", "any41">>)),
     SArgs(<<"med">>, PlNone, DxRe, <<NoMax, NoMax>>, <<>>, FALSE,
           [NoRename EXCEPT
              !["icd9_dx"] = RenameDict({<<"480", "pneumonia">>})])}

PipelineClaimFiles ==
    RowGroups(MedRow(0, 1, ("dgnscd1" :> "410"), <<>>),
              MedRow(1, 2, <<>>, <<>>))

NextPipeline ==
    \/ \E ys \in CohortYearLists : Construct(ys, "calendar")
    \/ \E a \in PipelineCohortArgs : GetCohort(a)
    \/ \E contents \in PipelineContents : ExtractYear(contents)
    \/ FinishCohort
    \/ \E a \in PipelineSearchArgs : SearchForCodes(a)
    \/ \E file \in PipelineClaimFiles : SearchYear(file)
    \/ \E xw \in Crosswalks : FinishSearch(xw)
    \/ Return

SpecPipeline == Init /\ [][NextPipeline]_vars

(* The specification of a search that follows get_cohort on an age-mode    *)
(* object, over two years and over one year more                           *)
AgeSearchYearLists ==
    {YearList(BoundaryYear, n) : n \in 2 .. NumYears + 1}

AgeCohortArgs ==
    {ArgsOf(Filters(None, NoneVal, NoneVal, {"3"}, NoneVal), j, {}, FALSE) :
        j \in {"outer", "inner"}}

AgeContents ==
    {Contents((0 :> Profile("2", "70", "1", {}, {}))
                 @@ (1 :> Profile("2", "70", "1", {}, {})), {}),
     Contents((0 :> Profile("2", "70", "1", {}, {})), {})}

AgeSearchArgs ==
    {SArgs(<<"med">>, PlNone, DxRe, <<NoMax, NoMax>>, <<>>, TRUE, NoRename),
     SArgs(<<"med">>, PlNone, DxBoth, <<NoMax, NoMax>>, <<>>, FALSE,
           NoRename),
     SArgs(<<"carl">>, PlNone, DxRe, <<NoMax, NoMax>>, <<>>, TRUE, NoRename),
     SArgs(<<"med">>, PlIndex("bene_id", <<0>>), DxRe, <<NoMax, NoMax>>,
           <<>>, TRUE, NoRename)}

NextAgeSearch ==
    \/ \E ys \in AgeSearchYearLists : Construct(ys, "age")
    \/ \E a \in AgeCohortArgs : GetCohort(a)
    \/ \E contents \in AgeContents : ExtractYear(contents)
    \/ FinishCohort
    \/ Return
    \/ \E a \in AgeSearchArgs : SearchForCodes(a)
    \/ \E file \in AgeMedFiles \cup CarlFiles : SearchYear(file)
    \/ \E xw \in Crosswalks : FinishSearch(xw)

SpecAgeSearch == Init /\ [][NextAgeSearch]_vars

(* The specification of get_cohort on age-mode objects of one year more,   *)
(* so that a year lies between the first and the last, over files whose    *)
(* patients miss the allowed value in one month                            *)
FlagYearLists == {YearList(BoundaryYear, NumYears + 1)}

FlagArgs ==
    {ArgsOf(Filters(None, NoneVal, NoneVal, {"3"}, h), j, {}, FALSE) :
        h \in {NoneVal, {"0"}}, j \in AllowedJoin}

FlagProfilesOf(p) ==
    IF p = 0
    THEN {Profile("2", "70", "1", b, {}) : b \in {{}, {1}, {6}, {7}}}
             \cup {Profile("2", "70", "1", {}, {7})}
    ELSE {Profile("2", "70", "1", b, {}) : b \in {{}, {NumMonths}}}

FlagContents ==
    {Contents(f, {}) :
        f \in {f \in [{0, 1} -> Profiles \cup FlagProfilesOf(0)
                                        \cup FlagProfilesOf(1)] :
                  \A p \in {0, 1} : f[p] \in FlagProfilesOf(p)}}

NextFlags ==
    \/ \E ys \in FlagYearLists : Construct(ys, "age")
    \/ \E a \in FlagArgs : GetCohort(a)
    \/ \E contents \in FlagContents : ExtractYear(contents)
    \/ FinishCohort

SpecFlags == Init /\ [][NextFlags]_vars

(* The specification of a search over three age years that follows one     *)
(* get_cohort                                                              *)
AgeClaimsArgs ==
    {SArgs(<<"med">>, PlNone, DxRe, <<NoMax, NoMax>>, <<>>, collapse,
           NoRename) : collapse \in BOOLEAN}

NextAgeClaims ==
    \/ \E ys \in FlagYearLists : Construct(ys, "age")
    \/ \E a \in AgeCohortArgs : pl.isNone /\ GetCohort(a)
    \/ \E contents \in AgeContents : ExtractYear(contents)
    \/ FinishCohort
    \/ pc = "gc_done" /\ Return
    \/ \E a \in AgeClaimsArgs : ~pl.isNone /\ SearchForCodes(a)
    \/ \E file \in AgeMedFiles \cup {SharedIdFile} : SearchYear(file)
    \/ \E xw \in Crosswalks : FinishSearch(xw)

SpecAgeClaims == Init /\ [][NextAgeClaims]_vars

(* The specification of get_cohort keeping the columns sex and race of     *)
(* files in which they change from year to year                            *)
StaticYearLists == {YearList(BoundaryYear, n) : n \in 2 .. (NumYears + 1)}

StaticArgs ==
    {ArgsOf(Filters(None, NoneVal, NoneVal, NoneVal, NoneVal), j,
            {Lit("sex"), Lit("race")}, d) :
        j \in AllowedJoin, d \in BOOLEAN}

StaticContents ==
    {Contents(f, {}) :
        f \in UNION {[S -> {Profile("1", "70", "1", {}, {}),
                            Profile("2", "70", "2", {}, {})}] :
                        S \in {{0}, {0, 1}, {1}}}}

NextStatic ==
    \/ \E ys \in StaticYearLists : Construct(ys, "calendar")
    \/ \E a \in StaticArgs : GetCohort(a)
    \/ \E contents \in StaticContents : ExtractYear(contents)
    \/ FinishCohort

SpecStatic == Init /\ [][NextStatic]_vars

(* The specification of collapsed searches over files with codes of one    *)
(* family in the columns of another                                        *)
SgLit == <<<<>>, <<>>, <<Lit("3601")>>>>

CollapsedArgs ==
    {SArgs(<<"med">>, PlNone, codes, <<NoMax, NoMax>>, <<>>, TRUE, NoRename) :
        codes \in {DxLit, DxRe, DxTwice, SgLit, AllFamilies}}
    \cup {SArgs(<<"carl">>, PlNone, AllFamilies, <<NoMax, NoMax>>, <<>>,
                TRUE, NoRename)}

NextCollapsed ==
    \/ \E ys \in CohortYearLists : Construct(ys, "calendar")
    \/ \E a \in CollapsedArgs : SearchForCodes(a)
    \/ \E file \in CrossCodeFiles \cup CarlFiles : SearchYear(file)
    \/ \E xw \in Crosswalks : FinishSearch(xw)

SpecCollapsed == Init /\ [][NextCollapsed]_vars

(* The static method _dates_to_year, called on a series of dates *)
DatesToYear(series, year) ==
    /\ pc = "new"
    /\ call' = [op |-> "_dates_to_year", series |-> series, year |-> year,
                result |-> dates_to_year(series, year)]
    /\ UNCHANGED <<pc, years, year_type, parquet_engine, pl, bsfab, args,
                   extracted_dfs, err>>
    /\ UNCHANGED nobsVars
    /\ UNCHANGED searchVars

(* The specification of _dates_to_year over the short series of birth      *)
(* dates and the years around a leap year                                  *)
BirthDates == {<<2, 28>>, <<2, 29>>, <<3, 1>>, <<6, 15>>, <<12, 31>>}

DateSeries == UNION {[1 .. n -> BirthDates] : n \in 0 .. (NumPatients + 1)}

TargetYears == BoundaryYear .. (BoundaryYear + NumYears)

NextDates ==
    \E series \in DateSeries, year \in TargetYears : DatesToYear(series, year)

SpecDates == Init /\ [][NextDates]_vars

(* The specification of the constructor over every short list of years *)
ConstructYears == BoundaryYear .. (BoundaryYear + NumYears)

ConstructYearLists ==
    UNION {[1 .. n -> ConstructYears] : n \in 0 .. (NumYears + 1)}

NextConstruct ==
    \E ys \in ConstructYearLists, ytype \in {"calendar", "age"},
       engine \in {"pyarrow", "fastparquet", "parquet"} :
        ConstructWith(ys, ytype, engine)

SpecConstruct == Init /\ [][NextConstruct]_vars

----------------------------------------------------------------------------
(* What the claims speak of, read off the files *)

YearSet(ys) == {ys[i] : i \in DOMAIN ys}

(* An enrollment filter is requested when its list of values is not empty. *)
Requested(values) == values # NoneVal /\ values # {}

PassesDemographic(file, p, a) ==
    /\ p \in file.index
    /\ a.gender # None => file.at[p]["sex"] = a.gender
    /\ a.ages # NoneVal => file.at[p]["age"] \in a.ages
    /\ a.races # NoneVal => file.at[p]["race"] \in a.races

TwelveMonthsAllowed(file, p, var, values) ==
    \A m \in Months : file.at[p][MonthCol(var, m)] \in values

PassesEnrollment(file, p, a) ==
    /\ Requested(a.buyin_val) =>
           TwelveMonthsAllowed(file, p, "buyin", a.buyin_val)
    /\ Requested(a.hmo_val) =>
           TwelveMonthsAllowed(file, p, "hmoind", a.hmo_val)

Passes(file, p, a) ==
    PassesDemographic(file, p, a) /\ PassesEnrollment(file, p, a)

PassedIn(y) == {p \in Patients : Passes(FileOf(bsfab[y]), p, args)}

PatientsOf(table) == {k[1] : k \in table.index}

CalendarDone == pc = "gc_done" /\ year_type = "calendar"

----------------------------------------------------------------------------
(* C1: in calendar mode with join 'outer' over several years the patient   *)
(* table has a row for every pair (retained patient, requested year), and  *)
(* cohort_match on row (p, y) is "True" exactly when p passed the          *)
(* requested filters in the file of year y, and "False" (never missing)    *)
(* otherwise.                                                              *)
C1_OuterPatientYearRows ==
    (CalendarDone /\ args.join = "outer" /\ Len(years) >= 2) =>
        /\ pl.index = PatientsOf(pl) \X YearSet(years)
        /\ "cohort_match" \in pl.columns
        /\ \A k \in pl.index :
              pl.at[k]["cohort_match"] = Bool(k[1] \in PassedIn(k[2]))

C1_Witness ==
    /\ CalendarDone /\ args.join = "outer" /\ Len(years) >= 2
    /\ args.gender # None /\ Requested(args.buyin_val)
    /\ \E k \in pl.index : pl.at[k]["cohort_match"] = "True"
    /\ \E k \in pl.index :
          /\ pl.at[k]["cohort_match"] = "False"
          /\ k[1] \in DOMAIN bsfab[k[2]].profs

(* C2: in calendar mode under eager evaluation the patients of the output  *)
(* are those that passed the filters in every year (inner), in some year   *)
(* (outer), in the first year (left), in the last year (right).            *)
C2_JoinSelectsPatients ==
    (CalendarDone /\ ~args.dask) =>
        PatientsOf(pl) =
            CASE args.join = "inner" ->
                    {p \in Patients : \A y \in YearSet(years) : p \in PassedIn(y)}
              [] args.join = "outer" ->
                    {p \in Patients : \E y \in YearSet(years) : p \in PassedIn(y)}
              [] args.join = "left" -> PassedIn(years[1])
              [] OTHER -> PassedIn(years[Len(years)])

C2_Witness ==
    /\ CalendarDone /\ ~args.dask /\ Len(years) >= 2
    /\ args.join = "right"
    /\ PassedIn(years[1]) \ PassedIn(years[Len(years)]) # {}
    /\ PassedIn(years[Len(years)]) \ PassedIn(years[1]) # {}
    /\ PatientsOf(pl) = PassedIn(years[Len(years)])

(* C8: a column consumed by an applied filter is in the output of          *)
(* get_cohort exactly when it matches an entry of keep_vars, literal name  *)
(* or compiled pattern.                                                    *)
ConsumedColumns(a) ==
    (IF a.gender # None THEN {"sex"} ELSE {})
    \cup (IF a.ages # NoneVal THEN {"age"} ELSE {})
    \cup (IF a.races # NoneVal THEN {"race"} ELSE {})
    \cup (IF Requested(a.buyin_val) THEN BuyinCols ELSE {})
    \cup (IF Requested(a.hmo_val) THEN HmoCols ELSE {})

C8_ConsumedColumnsKept ==
    CalendarDone =>
        \A c \in ConsumedColumns(args) :
            c \in pl.columns <=> str_in_keep_vars(c, args.keep_vars)

(* C9: for every join mode in calendar mode every patient-year row of the  *)
(* output carries the boolean match flag cohort_match.                     *)
C9_EveryRowHasMatchFlag ==
    CalendarDone =>
        /\ "cohort_match" \in pl.columns
        /\ \A k \in pl.index : pl.at[k]["cohort_match"] \in {"True", "False"}

(* C10: in calendar mode with a buy-in or HMO filter requested, a patient  *)
(* that reached the enrollment stage of a year is retained exactly when    *)
(* all 12 monthly values of each requested family are allowed; and one     *)
(* month of a retained patient changed to a disallowed value removes the   *)
(* patient.  Checked on the frame of the year just extracted.              *)
CellValues == {"0", "1", "3"}

ChangeMonth(file, p, col, v) ==
    [file EXCEPT !.at[p][col] = v]

ExtractedIndex(file, year) ==
    get_cohort_extract_each_year(
        file, year,
        get_cohort_get_vars_toload(args, year_type, file.columns),
        args, year_type, years).df.index

RequestedMonthCols(a) ==
    (IF Requested(a.buyin_val) THEN BuyinCols ELSE {})
    \cup (IF Requested(a.hmo_val) THEN HmoCols ELSE {})

AllowedFor(a, col) == IF col \in BuyinCols THEN a.buyin_val ELSE a.hmo_val

C10_TwelveMonthsRetained ==
    (pc = "gc_extract" /\ year_type = "calendar" /\ extracted_dfs # <<>>
        /\ RequestedMonthCols(args) # {}) =>
        LET i == Len(extracted_dfs)
            file == FileOf(bsfab[years[i]])
            kept == extracted_dfs[i].index
        IN /\ \A p \in Patients :
                 PassesDemographic(file, p, args) =>
                     (p \in kept <=> PassesEnrollment(file, p, args))
           /\ \A p \in kept : \A col \in RequestedMonthCols(args) :
                 \A v \in CellValues \ AllowedFor(args, col) :
                     p \notin ExtractedIndex(
                                  ChangeMonth(file, p, col, v), years[i])

C10_Witness ==
    /\ pc = "gc_extract" /\ year_type = "calendar"
    /\ Requested(args.buyin_val) /\ Requested(args.hmo_val)
    /\ Len(extracted_dfs) >= 1
    /\ extracted_dfs[1].index # {}
    /\ \E p \in DOMAIN bsfab[years[1]].profs :
          /\ PassesDemographic(FileOf(bsfab[years[1]]), p, args)
          /\ p \notin extracted_dfs[1].index

(* C7: a filter stage whose parameter is None does not keep the pipeline   *)
(* from completing: in age mode with buyin_val None get_cohort does not    *)
(* end in an error.                                                        *)
C7_NoneStageCompletes ==
    (year_type = "age" /\ args.buyin_val = NoneVal) => pc # "error"

----------------------------------------------------------------------------
(* What the claims speak of, read off the claim files *)

SearchRan == pc \in {"sc_search", "sc_done"} /\ data # <<>>

(* The names the per-code columns are to carry *)
ExpectedName(a, key, j) ==
    LET label == get_pattern(CodesOf(a)[key][j])
        given == IF a.rename[key].kind = "dict"
                 THEN {p \in a.rename[key].pairs : p[1] = label}
                 ELSE {}
    IN IF a.rename[key].kind = "list" THEN a.rename[key].names[j]
       ELSE IF a.rename[key].kind = "str" THEN a.rename[key].name
       ELSE IF given # {} THEN TheOne(given)[2]
       ELSE label

ExpectedNames(a) ==
    UNION {{ExpectedName(a, key, j) : j \in DOMAIN CodesOf(a)[key]} :
              key \in FamilySet}

AnyTrue(row, names) == \E c \in names : row[c] = "True"

(* C3: the match column of collapse_codes=True equals, row by row, the OR  *)
(* of the per-code columns of collapse_codes=False on the same claim file  *)
(* and arguments, whether or not the claim ids are unique.  Checked on the *)
(* frame of the last pass.                                                 *)
C3_CollapsedEqualsOrOfCodes ==
    (SearchRan /\ ~sargs.collapse_codes) =>
        LET k == Len(data)
            collapsed == RunPass([sargs EXCEPT !.collapse_codes = TRUE,
                                               !.rename = NoRename],
                                 years, year_type, k, clfiles[k], pl)
            percode == data[k].columns \cap ExpectedNames(sargs)
        IN /\ collapsed.err = ""
           /\ Len(collapsed.df.rows) = Len(data[k].rows)
           /\ \A i \in DOMAIN data[k].rows :
                 collapsed.df.rows[i]["match"]
                     = Bool(AnyTrue(data[k].rows[i], percode))

(* C4: with collapse_codes=False the claim table of every requested        *)
(* dataset has exactly one boolean column per supplied code, named by the  *)
(* rename map (a list applied positionally) or else by the code's label,   *)
(* plus match, the OR of these columns; a per-code column is "True" on a   *)
(* row exactly when the code matches the row.                              *)
SourceRows(data_type) ==
    Flatten([y \in DOMAIN years |->
                Flatten(PassesOf(sargs, years, clfiles, data_type)[y])])

C4_OneColumnPerCode ==
    (pc = "sc_done" /\ ~sargs.collapse_codes /\ sargs.pl.kind = "none") =>
        \A data_type \in Range(sargs.data_types) :
            LET table == cl.tables[data_type]
                source == SourceRows(data_type)
                cols == search_cols(data_type, years[1], year_type,
                                    CodesOf(sargs), MaxColsOf(sargs),
                                    KeepVarsOf(sargs, data_type))
            IN /\ table.columns \ AllCols(data_type)
                      = ExpectedNames(sargs) \cup {"match"}
               /\ \A i \in DOMAIN table.rows :
                     table.rows[i]["match"]
                         = Bool(AnyTrue(table.rows[i], ExpectedNames(sargs)))
               /\ \A key \in FamilySet : \A j \in DOMAIN CodesOf(sargs)[key] :
                     \A i \in DOMAIN table.rows :
                         table.rows[i][ExpectedName(sargs, key, j)]
                             = Bool(RowMatches(source[i], cols[key],
                                               CodesOf(sargs)[key][j]))

(* C5: with a patient-filter source given, the output holds a source claim *)
(* row exactly when the claim's patient identifier equals an identifier    *)
(* value of the source, a table or an index alike.  Checked on the last    *)
(* pass against the same pass run without the source.                      *)
FilterIds(source, pl_id) ==
    IF source.kind = "index"
    THEN (IF source.name = pl_id THEN Range(source.values) ELSE {})
    ELSE IF pl_id \in source.names
    THEN {source.rows[i][pl_id] : i \in DOMAIN source.rows}
    ELSE {}

RowKeys(df, data_type) ==
    [i \in DOMAIN df.rows |->
        <<df.rows[i]["bene_id"],
          df.rows[i][IF data_type = "med" THEN "medparid" ELSE "clm_id"]>>]

C5_FilterJoinsOnIdentifier ==
    (clfiles # <<>> /\ sargs.pl.kind # "none") =>
        LET k == Len(clfiles)
            data_type == PassDataType(sargs, years, k)
            plain == RunPass([sargs EXCEPT !.pl = PlNone], years,
                             year_type, k, clfiles[k], pl)
            ids == FilterIds(sargs.pl, PlId(PassYear(years, k)))
        IN plain.err = "" =>
               /\ Len(data) = k
               /\ RowKeys(data[k], data_type)
                      = SelectSeq(RowKeys(plain.df, data_type),
                                  LAMBDA key : key[1] \in ids)

(* C6 *)
AboveMax(data_type, i, max_cols) ==
    {x \in AllCols(data_type) :
        \E g \in ReGroup1(Regexes(data_type, i), x) :
            \E n \in max_cols[i] : g > n}

AboveMaxCols(a, data_type) ==
    AboveMax(data_type, "icd9_dx", MaxColsOf(a))
        \cup AboveMax(data_type, "icd9_sg", MaxColsOf(a))

BlankCols(file, cs) ==
    [g \in DOMAIN file |->
        [i \in DOMAIN file[g] |->
            [c \in DOMAIN file[g][i] |->
                IF c \in cs THEN "" ELSE file[g][i][c]]]]

Without(df, cs) ==
    [i \in DOMAIN df.rows |->
        [c \in (DOMAIN df.rows[i]) \ cs |-> df.rows[i][c]]]

LastColsToload ==
    LET data_type == PassDataType(sargs, years, Len(data))
    IN cols_toload(search_cols(data_type, PassYear(years, Len(data)),
                               year_type, CodesOf(sargs), MaxColsOf(sargs),
                               KeepVarsOf(sargs, data_type)))

LastAbove == AboveMaxCols(sargs, PassDataType(sargs, years, Len(data)))

LastKept(x) ==
    str_in_keep_vars(
        x, KeepVarsOf(sargs, PassDataType(sargs, years, Len(data))))

(* The cells of the columns above the maximum do not bear on the other     *)
(* columns of the output.                                                  *)
AboveMaxNotScanned ==
    LET k == Len(data)
        blanked == RunPass(sargs, years, year_type, k,
                           BlankCols(clfiles[k], LastAbove), pl)
    IN /\ blanked.err = ""
       /\ Without(blanked.df, LastAbove) = Without(data[k], LastAbove)

(* C6 (as stated): with a maximum column number set, the columns of the    *)
(* family numbered above it are never scanned, are not loaded and are not  *)
(* in the output, whatever keep_vars holds.                                *)
C6_AboveMaxNeverLoaded ==
    (SearchRan /\ LastAbove # {}) =>
        /\ AboveMaxNotScanned
        /\ LastAbove \cap LastColsToload = {}
        /\ LastAbove \cap data[Len(data)].columns = {}

(* C6 (amended): with a maximum column number set, the columns of the      *)
(* family numbered above it are never scanned; such a column is loaded,    *)
(* and is in the output, exactly when it matches an entry of keep_vars.    *)
C6_AboveMaxKeptByKeepVars ==
    (SearchRan /\ LastAbove # {}) =>
        /\ AboveMaxNotScanned
        /\ \A x \in LastAbove : x \in LastColsToload <=> LastKept(x)
        /\ \A x \in LastAbove :
              x \in data[Len(data)].columns <=> LastKept(x)

C6_Witness ==
    /\ SearchRan
    /\ sargs.icd9_dx_max_cols # NoMax
    /\ \E x \in LastAbove \cap data[Len(data)].columns :
          \E i \in DOMAIN data[Len(data)].rows :
              /\ \E code \in Range(sargs.icd9_dx) :
                    CellMatches(data[Len(data)].rows[i][x], code)
              /\ data[Len(data)].rows[i]["match"] = "False"

----------------------------------------------------------------------------
(* C20: search_for_codes with collapse_codes=False raises ValueError when  *)
(* two supplied codes have the same canonical label, a string and a        *)
(* compiled pattern of the same text alike, before any claim file is read; *)
(* with collapse_codes=True the same codes pass the type check.            *)
SuppliedCodes(a) == a.hcpcs \o a.icd9_dx \o a.icd9_sg

SameLabelTwice(a) ==
    \E i, j \in DOMAIN SuppliedCodes(a) :
        i < j /\ SuppliedCodes(a)[i].text = SuppliedCodes(a)[j].text

SearchInvoked == sargs # NoSearchArgs

RejectedByTypeCheck == pc = "error" /\ clfiles = <<>>

C20_DuplicateLabelsRejected ==
    (SearchInvoked /\ SameLabelTwice(sargs)
        /\ Range(sargs.data_types) \subseteq OkDataTypes
        /\ sargs.pl.kind = "none"
        /\ sargs.icd9_dx_max_cols = NoMax /\ sargs.icd9_sg_max_cols = NoMax
        /\ \A i \in FamilySet : sargs.rename[i].kind = "none") =>
        IF sargs.collapse_codes THEN ~RejectedByTypeCheck
        ELSE RejectedByTypeCheck /\ err = "ValueError"

C20_Witness ==
    /\ SearchInvoked /\ ~sargs.collapse_codes
    /\ sargs.icd9_dx = <<Lit("410"), Re("410")>>
    /\ RejectedByTypeCheck /\ err = "ValueError"

----------------------------------------------------------------------------
(* C19: with collapse_codes=False, a rename value that is a single string  *)
(* for a family in which exactly one code is searched gives a rename map   *)
(* from the code's label to the string, and the output column of the code  *)
(* carries that name.                                                      *)
SingleStringRename(a, key) ==
    /\ a.rename[key].kind = "str" /\ a.rename[key].name # ""
    /\ Len(CodesOf(a)[key]) = 1

C19_SingleStringRename ==
    \A key \in FamilySet :
        (SearchInvoked /\ ~sargs.collapse_codes
            /\ SingleStringRename(sargs, key)) =>
            /\ ~RejectedByTypeCheck
            /\ SearchRan => sargs.rename[key].name
                                \in data[Len(data)].columns

----------------------------------------------------------------------------
(* C17: in calendar mode with two or more years, get_cohort with dask=True *)
(* stores the same patient-year rows with the same column values as the    *)
(* eager run on the same files and arguments, for every join mode.         *)
RerunCohort(a) ==
    LET frames == [i \in DOMAIN years |->
                      get_cohort_extract_each_year(
                          FileOf(bsfab[years[i]]), years[i],
                          get_cohort_get_vars_toload(
                              a, year_type, FileOf(bsfab[years[i]]).columns),
                          a, year_type, years)]
    IN IF \E i \in DOMAIN years : frames[i].err # ""
       THEN [err |-> "Error", df |-> EmptyFrame]
       ELSE get_cohort_merge([i \in DOMAIN years |-> frames[i].df],
                             a, year_type, years)

C17_DaskEqualsEager ==
    (CalendarDone /\ args.dask /\ Len(years) >= 2) =>
        LET eager == RerunCohort([args EXCEPT !.dask = FALSE])
        IN eager.err = "" /\ pl = StoredPl(eager.df)

----------------------------------------------------------------------------
(* C18: under eager evaluation every applied filter stage of every year    *)
(* (gender, age, race, buy-in, HMO) has an entry in the stored             *)
(* nobs_dropped, equal to 1 - rows_after/rows_before with rows_before the  *)
(* row count left by the previously applied stage, in calendar years and   *)
(* in age years.                                                           *)
EagerDone == pc = "gc_done" /\ ~args.dask

AppliedStages(a) ==
    {st \in {"gender", "age", "race", "buyin_val", "hmo_val"} :
        \/ st = "gender" /\ a.gender # None
        \/ st = "age" /\ a.ages # NoneVal
        \/ st = "race" /\ a.races # NoneVal
        \/ st = "buyin_val" /\ Truthy(a.buyin_val)
        \/ st = "hmo_val" /\ Truthy(a.hmo_val)}

(* The frames a year's file goes through, stage by stage. *)
FrameAfter(st, year) ==
    LET file == FileOf(bsfab[year])
        f0 == ReadColumns(file, get_cohort_get_vars_toload(
                                    args, year_type, file.columns))
        f1 == GenderStage(f0, args)
        f2 == AgeStage(f1, args)
        f3 == RaceStage(f2, args)
        f4 == IF ~Truthy(args.buyin_val) THEN f3
              ELSE IF year_type = "calendar"
              THEN CalendarBuyinStage(f3, args, f3.columns \cap BuyinCols)
              ELSE get_cohort_month_filter(f3, "buyin", args.buyin_val,
                                           year, args.keep_vars, years)
        f5 == IF ~Truthy(args.hmo_val) THEN f4
              ELSE IF year_type = "calendar"
              THEN CalendarHmoStage(f4, args, f4.columns \cap HmoCols)
              ELSE get_cohort_month_filter(f4, "hmoind", args.hmo_val,
                                           year, args.keep_vars, years)
    IN CASE st = "read" -> f0
         [] st = "gender" -> f1
         [] st = "age" -> f2
         [] st = "race" -> f3
         [] st = "buyin_val" -> f4
         [] st = "hmo_val" -> f5

StageBefore(st) ==
    CASE st = "gender" -> "read"
      [] st = "age" -> "gender"
      [] st = "race" -> "age"
      [] st = "buyin_val" -> "race"
      [] st = "hmo_val" -> "buyin_val"

RowsAfter(st, year) == Cardinality(FrameAfter(st, year).index)
RowsBefore(st, year) == Cardinality(FrameAfter(StageBefore(st), year).index)

DropRecorded(st, year) ==
    /\ st \in DOMAIN nobs_dropped.of[year]
    /\ nobs_dropped.of[year][st] = <<RowsAfter(st, year), RowsBefore(st, year)>>

C18_DropFractionsRecorded ==
    EagerDone =>
        \A i \in DOMAIN years : \A st \in AppliedStages(args) :
            DropRecorded(st, years[i])

----------------------------------------------------------------------------
(* C12: a search over years that are all before 2006, called with          *)
(* convert_ehic=False, completes, and its claim tables are keyed by ehic   *)
(* with no bene_id.                                                        *)
AllPassesDone ==
    /\ SearchInvoked
    /\ pc \in {"sc_done", "error"}
    /\ Len(data) = Len(sargs.data_types) * Len(years)

C12_EhicOnlyKeepsEhic ==
    (AllPassesDone /\ years_bene_id(years) = <<>> /\ ~sargs.convert_ehic) =>
        /\ pc = "sc_done"
        /\ \A data_type \in DOMAIN cl.tables :
              /\ "ehic" \in cl.tables[data_type].index
              /\ "bene_id" \notin cl.tables[data_type].index
                                     \cup cl.tables[data_type].columns

----------------------------------------------------------------------------
(* C13: over years before 2006 and years from 2006 on, whatever            *)
(* convert_ehic, the search completes with every row of the claim table    *)
(* carrying a non-missing bene_id, and with every source claim row exactly *)
(* once.                                                                   *)
MixedYears == years_ehic(years) # <<>> /\ years_bene_id(years) # <<>>

SourceClaimIds(data_type) ==
    LET own == PassesOf(sargs, years, data, data_type)
    IN Flatten([y \in DOMAIN years |->
                   [j \in DOMAIN own[y].rows |->
                       <<years[y], own[y].rows[j]["medparid"]>>]])

OutputClaimIds(data_type) ==
    [j \in DOMAIN cl.tables[data_type].rows |->
        <<cl.tables[data_type].rows[j]["year"],
          cl.tables[data_type].rows[j]["medparid"]>>]

C13_MixedYearsReconciled ==
    (AllPassesDone /\ MixedYears) =>
        /\ pc = "sc_done"
        /\ \A data_type \in DOMAIN cl.tables :
              /\ cl.tables[data_type].index = {"bene_id", "year"}
              /\ \A j \in DOMAIN cl.tables[data_type].rows :
                    cl.tables[data_type].rows[j]["bene_id"]
                        # NaNOf("bene_id")
              /\ OutputClaimIds(data_type) = SourceClaimIds(data_type)

----------------------------------------------------------------------------
(* C14: every step of a search_for_codes invocation that follows a         *)
(* get_cohort invocation leaves the stored patient table as it was, rows,  *)
(* columns and values: the search only reads self.pl.                      *)
SearchStep == pc = "sc_search" \/ (pc = "idle" /\ sargs' # NoSearchArgs)

C14_SearchLeavesPlUnchanged == [][SearchStep => pl' = pl]_vars

C14_Witness ==
    /\ pc = "sc_done" /\ ~pl.isNone /\ sargs.pl.kind = "none"
    /\ Len(years) >= 2
    /\ \E data_type \in DOMAIN cl.tables :
          \E i \in DOMAIN clfiles :
              Len(Flatten(clfiles[i])) * Len(years)
                  > Len(cl.tables[data_type].rows)

----------------------------------------------------------------------------
(* C15: a get_cohort or search_for_codes invocation that aborts leaves the *)
(* stored patient table, the stored nobs_dropped and the stored claim      *)
(* tables as they were before it: no step but the last step of an          *)
(* invocation that completes changes them.                                 *)
C15_AbortKeepsStoredState ==
    [][(pc' \notin {"gc_done", "sc_done"}) =>
           UNCHANGED <<pl, nobs_dropped, cl>>]_vars

(* get_cohort aborted on a missing column in a later year, after a         *)
(* get_cohort and a search_for_codes that completed.                       *)
C15_Witness ==
    /\ pc = "error" /\ err = "AssertionError"
    /\ Len(extracted_dfs) >= 1
    /\ ~pl.isNone /\ ~nobs_dropped.isNone /\ ~cl.isNone

----------------------------------------------------------------------------
(* C16: an unsupported join mode, an unsupported dataset, a gender or race *)
(* text that resolves to no code or to several, duplicate code             *)
(* specifications without collapse, rename keys that are not among the     *)
(* searched codes and rename given while collapsing are each raised before *)
(* the invocation reads any file.                                          *)
GenderTexts == {None, "0", "1", "2", "unknown", "male", "female", "u", "m", "f"}

OneRaceTexts == {"0", "1", "2", "3", "4", "5", "6", "white", "black", "asian"}

CohortInvoked == args # NoArgs

InvalidCohortArgs(a) ==
    \/ a.join \notin {"left", "right", "inner", "outer"}
    \/ a.gender \notin GenderTexts
    \/ a.races # NoneVal /\ ~(a.races \subseteq OneRaceTexts)

RenameKeys(a) ==
    UNION {IF a.rename[i].kind = "dict"
           THEN {<<i, q[1]>> : q \in a.rename[i].pairs} ELSE {} :
              i \in FamilySet}

InvalidSearchArgs(a) ==
    \/ ~(Range(a.data_types) \subseteq OkDataTypes)
    \/ ~a.collapse_codes /\ SameLabelTwice(a)
    \/ a.collapse_codes /\ \E i \in FamilySet : a.rename[i].kind # "none"
    \/ \E k \in RenameKeys(a) :
          \A j \in DOMAIN a[k[1]] : a[k[1]][j].text # k[2]

NothingRead == bsfab = <<>> /\ clfiles = <<>> /\ crosswalk = <<>>

C16_ValidationBeforeReads ==
    /\ (CohortInvoked /\ InvalidCohortArgs(args)) =>
           pc = "error" /\ err # "" /\ NothingRead
    /\ (SearchInvoked /\ InvalidSearchArgs(sargs)) =>
           pc = "error" /\ err # "" /\ NothingRead

C16_Witness ==
    /\ SearchInvoked /\ ~sargs.collapse_codes
    /\ \E k \in RenameKeys(sargs) : k[2] = "480"
    /\ pc = "error" /\ err = "AssertionError" /\ NothingRead
    /\ ~pl.isNone

----------------------------------------------------------------------------
(* The year labels of an age-mode object: the first n-1 requested years *)
AgeLabels == {years[i] : i \in 1 .. (Len(years) - 1)}

ClaimRows == {r \in UNION {Range(cl.tables[data_type].rows) :
                               data_type \in DOMAIN cl.tables} : TRUE}

(* C11: in age mode with n requested years, the year labels of the rows    *)
(* of the patient table and of every claim table lie within the first n-1  *)
(* requested years.                                                        *)
C11_AgeLabelsInFirstYears ==
    year_type = "age" =>
        /\ \A k \in pl.index : k[2] \in AgeLabels
        /\ \A r \in ClaimRows : r["year"] \in AgeLabels

(* A completed search over three years that follows get_cohort: the claim  *)
(* table has a stay of the last calendar year, before the birthday, under  *)
(* the label of the year before it, and a stay under the first label.      *)
C11_Witness ==
    /\ year_type = "age" /\ pc = "sc_done" /\ Len(years) = 3
    /\ {k[2] : k \in pl.index} = AgeLabels
    /\ clfiles[3][1][1]["admsndt"] = "03-01"
    /\ \E r \in ClaimRows : r["year"] = years[2] /\ r["medparid"] = 1
    /\ \E r \in ClaimRows : r["year"] = years[1]


----------------------------------------------------------------------------
(* The gap-free ascending run from its first element *)
AscendingRun(ys) == \A i \in DOMAIN ys : ys[i] = ys[1] + (i - 1)

AgeConstructed == call.op = "__init__" /\ call.year_type = "age"

(* C21: the constructor with year_type 'age' raises ValueError when        *)
(* exactly one year is given or the list is not the gap-free ascending run *)
(* from its minimum to its maximum; with two or more contiguous ascending  *)
(* years (and a valid parquet engine) it succeeds and self.years is the    *)
(* list given.                                                             *)
C21_AgeConstruction ==
    (AgeConstructed /\ pc \in {"idle", "error"}) =>
        IF Len(call.years) = 1 \/ ~AscendingRun(call.years)
        THEN pc = "error" /\ err = "ValueError"
        ELSE IF Len(call.years) >= 2
                /\ call.parquet_engine \in {"pyarrow", "fastparquet"}
        THEN pc = "idle" /\ years = call.years /\ year_type = "age"
        ELSE TRUE

(* A descending list of the same years is rejected. *)
C21_Witness ==
    /\ AgeConstructed /\ pc = "error" /\ err = "ValueError"
    /\ Len(call.years) = 2 /\ call.years[1] = call.years[2] + 1

C21_WitnessAccepted ==
    /\ AgeConstructed /\ pc = "idle"
    /\ Len(call.years) = 3 /\ years = call.years


----------------------------------------------------------------------------
(* The halves of a year read off the file: the months from the birth month *)
(* on, and the months up to the birth month                                *)
BirthMonth(file, p) == DobMonth(file.at[p]["bene_dob"])

OlderHalf(file, p, var, values) ==
    \A m \in BirthMonth(file, p) .. NumMonths :
        file.at[p][MonthCol(var, m)] \in values

YoungerHalf(file, p, var, values) ==
    \A m \in 1 .. BirthMonth(file, p) :
        file.at[p][MonthCol(var, m)] \in values

FilteredFamilies ==
    {f \in {<<"buyin", args.buyin_val>>, <<"hmoind", args.hmo_val>>} :
        f[2] # NoneVal}

(* The year's row filter on one family *)
HalvesKept(file, p, f, year) ==
    IF year = MinYear(years) THEN OlderHalf(file, p, f[1], f[2])
    ELSE IF year = MaxYear(years) THEN YoungerHalf(file, p, f[1], f[2])
    ELSE OlderHalf(file, p, f[1], f[2]) \/ YoungerHalf(file, p, f[1], f[2])

AgeExtracting == year_type = "age" /\ pc = "gc_extract"

(* C22: in age mode the older flag of year Y is true exactly when the      *)
(* months from the birth month to 12 of Y are all allowed, the younger     *)
(* flag exactly when the months from 1 to the birth month are; the first   *)
(* year's table is filtered on older, the last year's on younger, a year   *)
(* between them on older OR younger.                                       *)
C22_AgeHalfFlags ==
    AgeExtracting =>
        \A i \in DOMAIN extracted_dfs :
            LET year == years[i]
                file == FileOf(bsfab[year])
                df == extracted_dfs[i]
            IN /\ df.index =
                      {p \in file.index :
                          /\ PassesDemographic(file, p, args)
                          /\ \A f \in FilteredFamilies :
                                 HalvesKept(file, p, f, year)}
               /\ \A p \in df.index : \A f \in FilteredFamilies :
                      /\ <<f[1] \o "_older", year>> \in df.columns =>
                             df.at[p][<<f[1] \o "_older", year>>]
                                 = Bool(OlderHalf(file, p, f[1], f[2]))
                      /\ <<f[1] \o "_younger", year>> \in df.columns =>
                             df.at[p][<<f[1] \o "_younger", year>>]
                                 = Bool(YoungerHalf(file, p, f[1], f[2]))
               /\ year # MaxYear(years) =>
                      \A f \in FilteredFamilies :
                          <<f[1] \o "_older", year>> \in df.columns
               /\ year # MinYear(years) =>
                      <<"buyin_younger", year>> \in df.columns

(* The three years are extracted; in the middle year a patient born in     *)
(* June misses the allowed value in July and is kept as younger only, and  *)
(* in the first year a patient is dropped for a missed month of the older  *)
(* half.                                                                   *)
C22_Witness ==
    /\ AgeExtracting /\ Len(extracted_dfs) = 3
    /\ 0 \in extracted_dfs[2].index
    /\ extracted_dfs[2].at[0][<<"buyin_older", years[2]>>] = "False"
    /\ extracted_dfs[2].at[0][<<"buyin_younger", years[2]>>] = "True"
    /\ \E p \in DOMAIN bsfab[years[1]].profs : p \notin extracted_dfs[1].index


----------------------------------------------------------------------------
(* The boundary between the year of position i and the next one: the       *)
(* patient passed the filters of both years, the older half of the first   *)
(* and the younger half of the second are satisfied in every filtered      *)
(* family.                                                                 *)
InYearTable(p, i) ==
    LET file == FileOf(bsfab[years[i]])
    IN /\ p \in file.index
       /\ PassesDemographic(file, p, args)
       /\ \A f \in FilteredFamilies : HalvesKept(file, p, f, years[i])

BoundaryMatch(p, i) ==
    /\ InYearTable(p, i) /\ InYearTable(p, i + 1)
    /\ \A f \in FilteredFamilies :
          /\ OlderHalf(FileOf(bsfab[years[i]]), p, f[1], f[2])
          /\ YoungerHalf(FileOf(bsfab[years[i + 1]]), p, f[1], f[2])

Boundaries == 1 .. (Len(years) - 1)

KeptByJoin ==
    CASE args.join = "inner" ->
            {p \in Patients : \A i \in Boundaries : BoundaryMatch(p, i)}
      [] args.join = "outer" ->
            {p \in Patients : \E i \in Boundaries : BoundaryMatch(p, i)}
      [] args.join = "left" -> {p \in Patients : BoundaryMatch(p, 1)}
      [] OTHER -> {p \in Patients : BoundaryMatch(p, Len(years) - 1)}

(* get_cohort read every year and went on to merge them *)
AgeMerged ==
    /\ year_type = "age" /\ pc \in {"gc_done", "error"}
    /\ args # NoArgs /\ Len(extracted_dfs) = Len(years)

BoundaryFlagsStored ==
    /\ pc = "gc_done"
    /\ PatientsOf(pl) = KeptByJoin
    /\ pl.index = KeptByJoin \X AgeLabels
    /\ \A p \in KeptByJoin : \A i \in Boundaries :
          pl.at[<<p, years[i]>>]["cohort_match"] = Bool(BoundaryMatch(p, i))

(* C23: in age mode, for every filtered enrollment family (buy-in, and     *)
(* independently HMO), the match flag of (p, Y), Y not the last year, is   *)
(* true exactly when p passed the filters of Y, the older half of Y and    *)
(* the younger half of Y+1 are satisfied; the join keeps the patients with *)
(* all flags true (inner), some flag true (outer), the first flag true     *)
(* (left), the last flag true (right).                                     *)
C23_BoundaryFlags ==
    (AgeMerged /\ FilteredFamilies # {}) => BoundaryFlagsStored


----------------------------------------------------------------------------
(* The stays of the file of position i in self.years *)
StaysOf(i) == Range(Flatten(clfiles[i]))

(* The patients of the stored table's rows of the year or the year before *)
StoredAround(year) == {k[1] : k \in {x \in pl.index : x[2] \in {year - 1, year}}}

(* d >= b, b the birth date of the patient projected into the year *)
OnOrAfterBirthday(stay, year) ==
    LET d == MonthDay(stay["admsndt"])
        b == dates_to_year(<<MonthDay(DobOf(stay["bene_id"]))>>, year)[1]
    IN d[1] > b[1] \/ (d[1] = b[1] /\ d[2] >= b[2])

Discarded(stay, year) ==
    \/ year = years[1] /\ ~OnOrAfterBirthday(stay, year)
    \/ year = years[Len(years)] /\ OnOrAfterBirthday(stay, year)

SurvivingStays(i) ==
    {stay \in StaysOf(i) :
        stay["bene_id"] \in StoredAround(years[i])
            /\ ~Discarded(stay, years[i])}

HasSearchedCode(stay) ==
    \E j \in DOMAIN sargs.icd9_dx :
        RowMatches(stay, NumberedCols("dgnscd"), sargs.icd9_dx[j])

(* match of a surviving stay: on its own codes when collapsed, on the      *)
(* codes of the surviving stays of its claim id otherwise                  *)
MatchAfterDiscard(stay, i) ==
    IF sargs.collapse_codes THEN HasSearchedCode(stay)
    ELSE \E other \in SurvivingStays(i) :
            other["medparid"] = stay["medparid"] /\ HasSearchedCode(other)

LabelledStay(stay, i) ==
    <<stay["bene_id"], stay["medparid"], stay["admsndt"],
      IF OnOrAfterBirthday(stay, years[i]) THEN years[i] ELSE years[i] - 1,
      Bool(MatchAfterDiscard(stay, i))>>

AgeSearchDone ==
    /\ year_type = "age" /\ pc = "sc_done"
    /\ sargs.data_types = <<"med">> /\ sargs.pl.kind = "none"

(* C24: in age mode a claim of calendar year Y is labelled Y when its date *)
(* is on or after the birthday in Y and Y-1 otherwise; the claims of the   *)
(* first year before the birthday and of the last year on or after it are  *)
(* absent, and they are discarded before the codes are matched.            *)
C24_AgeClaimLabels ==
    AgeSearchDone =>
        {<<r["bene_id"], r["medparid"], r["admsndt"], r["year"], r["match"]>> :
            r \in Range(cl.tables["med"].rows)}
          = UNION {{LabelledStay(stay, i) : stay \in SurvivingStays(i)} :
                      i \in DOMAIN years}

(* The first year's file has a stay with the code before the birthday and  *)
(* a stay of the same id after it, the last year's file a stay on the      *)
(* birthday (March 1 for a patient born on February 29); the per-code      *)
(* search stores stays under both labels.                                  *)
C24_Witness ==
    /\ AgeSearchDone /\ Len(years) = 3 /\ ~sargs.collapse_codes
    /\ clfiles[1] = SharedIdFile
    /\ \E stay \in StaysOf(3) :
          stay["bene_id"] = 1 /\ stay["admsndt"] = "03-01"
    /\ \E stay \in StaysOf(2) : ~OnOrAfterBirthday(stay, years[2])
    /\ {r["year"] : r \in Range(cl.tables["med"].rows)} = AgeLabels
    /\ 1 \in StoredAround(years[3])


----------------------------------------------------------------------------
Projected == call.op = "_dates_to_year"

(* C25: projecting a series of birth dates into a year keeps the month and *)
(* day of every date, except that February 29 becomes March 1 when the     *)
(* year is not a leap year and is retained when it is; the other dates of  *)
(* the series are unaffected by a February 29 in it.                       *)
C25_LeapDayProjection ==
    Projected =>
        /\ DOMAIN call.result = DOMAIN call.series
        /\ \A i \in DOMAIN call.series :
              call.result[i] =
                  IF call.series[i] = <<2, 29>>
                        /\ ~(call.year % 4 = 0
                               /\ (call.year % 100 # 0
                                      \/ call.year % 400 = 0))
                  THEN <<3, 1>> ELSE call.series[i]

(* A series with February 29 and other dates projected into a year that is *)
(* not a leap year                                                         *)
C25_Witness ==
    /\ Projected /\ call.year = BoundaryYear + 1
    /\ Len(call.series) = 3
    /\ call.series[2] = <<2, 29>> /\ call.result[2] = <<3, 1>>
    /\ call.series[1] = <<2, 28>> /\ call.series[3] = <<12, 31>>


----------------------------------------------------------------------------
(* The static columns the invocation keeps *)
KeptStatic ==
    {name \in {"sex", "race"} : str_in_keep_vars(name, args.keep_vars)}

(* The earliest requested year whose file has the patient *)
YearsWith(p) == {y \in YearSet(years) : p \in DOMAIN bsfab[y].profs}

EarliestValue(p, name) ==
    FileOf(bsfab[MinYear(SortedSeq(YearsWith(p)))]).at[p][name]

(* C26: for every join mode, 'right' included, the collapsed value of a    *)
(* static column for a patient is the value of the earliest requested year *)
(* in which the column is not missing for the patient, and no per-year     *)
(* copy of the column remains.                                             *)
C26_StaticFromEarliestYear ==
    (CalendarDone /\ Len(years) >= 2) =>
        /\ KeptStatic \subseteq pl.columns
        /\ \A k \in pl.index : \A name \in KeptStatic :
              pl.at[k][name] = EarliestValue(k[1], name)


----------------------------------------------------------------------------
(* A literal matches a cell equal to it, a pattern a cell that contains it *)
CodeInCell(code, cell) ==
    IF code.kind = "re" THEN StrContains(cell, code.text)
    ELSE cell = code.text

(* Some supplied code of some family matches some scanned column of that   *)
(* family on the stay                                                      *)
FamilyMatch(stay, scanned) ==
    \E key \in FamilySet : \E j \in DOMAIN CodesOf(sargs)[key] :
        \E c \in scanned[key] : CodeInCell(CodesOf(sargs)[key][j], stay[c])

CollapsedPass == SearchRan /\ sargs.collapse_codes /\ sargs.pl.kind = "none"

(* C27: in collapsed mode match on a claim row is true exactly when some   *)
(* supplied code of some family matches some scanned column of that family *)
(* on the row, a literal by equality and a pattern by containment; a code  *)
(* is never tested against the columns of another family, and a row        *)
(* without a matching code is kept with match false.                       *)
C27_CollapsedMatch ==
    CollapsedPass =>
        LET k == Len(data)
            data_type == PassDataType(sargs, years, k)
            source == Flatten(clfiles[k])
            scanned == search_cols(data_type, PassYear(years, k), year_type,
                                   CodesOf(sargs), MaxColsOf(sargs),
                                   KeepVarsOf(sargs, data_type))
            cl_id == TheOne(scanned.cl_id)
        IN /\ Len(data[k].rows) = Len(source)
           /\ \A i \in DOMAIN source :
                 /\ data[k].rows[i][cl_id] = source[i][cl_id]
                 /\ data[k].rows[i]["match"]
                        = Bool(FamilyMatch(source[i], scanned))

(* A search for a diagnosis and a procedure code over a stay that holds    *)
(* the procedure code in a diagnosis column and nothing in the procedure   *)
(* column: match is false on both rows.                                    *)
C27_Witness ==
    /\ CollapsedPass /\ sargs.icd9_dx # <<>> /\ sargs.icd9_sg # <<>>
    /\ sargs.data_types = <<"med">>
    /\ clfiles[Len(data)][1][1]["dgnscd1"] = "3601"
    /\ clfiles[Len(data)][1][1]["prcdrcd1"] = ""
    /\ \A i \in DOMAIN data[Len(data)].rows :
          data[Len(data)].rows[i]["match"] = "False"
    /\ Len(data[Len(data)].rows) = 2


----------------------------------------------------------------------------
(* The multiset of the rows of a frame *)
RowBag(df) ==
    [r \in Range(df.rows) |->
        Cardinality({i \in DOMAIN df.rows : df.rows[i] = r})]

(* The file of the last pass read as one partition, and with its           *)
(* partitions in the opposite order                                        *)
AsOnePartition(file) == <<Flatten(file)>>
Reversed(file) == [g \in DOMAIN file |-> file[Len(file) + 1 - g]]

SamePassOn(file) ==
    LET k == Len(data)
        other == RunPass(sargs, years, year_type, k, file, pl)
    IN other.err = "" /\ RowBag(other.df) = RowBag(data[k])

(* C28: the multiset of the output rows of one year's claim data, with     *)
(* their match and per-code values, is the same however the claims are     *)
(* split into partitions and in whatever order the partitions come, in     *)
(* collapsed and in non-collapsed mode.                                    *)
C28_PartitionIndependent ==
    SearchRan =>
        /\ SamePassOn(AsOnePartition(clfiles[Len(data)]))
        /\ SamePassOn(Reversed(clfiles[Len(data)]))


----------------------------------------------------------------------------
(* The search has returned on a calendar-mode object whose stored table    *)
(* came from get_cohort with a join other than 'inner' (the table then     *)
(* has the column cohort_match), no pl argument given                      *)
StoredTableFiltered ==
    /\ pc = "sc_done" /\ year_type = "calendar"
    /\ sargs.pl.kind = "none" /\ ~pl.isNone
    /\ "cohort_match" \in pl.columns
    /\ "med" \in DOMAIN cl.tables

MatchedIn(patient, year) ==
    /\ <<patient, year>> \in pl.index
    /\ pl.at[<<patient, year>>]["cohort_match"] = "True"

(* C29: after get_cohort (calendar mode, join other than 'inner') a search *)
(* without a pl argument outputs, for year Y, only claims of patients      *)
(* whose cohort_match is true for year Y in the stored table.              *)
C29_OnlyMatchedPatients ==
    StoredTableFiltered =>
        \A r \in Range(cl.tables["med"].rows) :
            MatchedIn(r["bene_id"], r["year"])

----------------------------------------------------------------------------
(* A pass of an age-mode search of three or more years has run with the    *)
(* stored table as its filter source                                       *)
AgePassRan ==
    /\ SearchRan /\ year_type = "age" /\ Len(years) >= 3
    /\ sargs.data_types = <<"med">> /\ sargs.pl.kind = "none"
    /\ ~pl.isNone

(* The patients with a row in the stored table for the year and for the    *)
(* year before it                                                          *)
StoredInBoth(year) ==
    {p \in Patients : <<p, year - 1>> \in pl.index /\ <<p, year>> \in pl.index}

RecordsOf(patient, filter) ==
    Cardinality({i \in DOMAIN filter.keys : filter.keys[i] = patient})

SameStay(r, stay) ==
    /\ r["bene_id"] = stay["bene_id"]
    /\ r["medparid"] = stay["medparid"]
    /\ r["admsndt"] = stay["admsndt"]

Copies(stay, rows) ==
    Cardinality({i \in DOMAIN rows : SameStay(rows[i], stay)})

(* C30: in age mode with three or more years a patient stored for year    *)
(* Y-1 and year Y gives one record to the filter source of calendar year   *)
(* Y, and no claim row of the year's file appears more often in the output *)
(* than in the file.                                                       *)
C30_SingleFilterRecord ==
    AgePassRan =>
        LET k == Len(data)
            year == PassYear(years, k)
            filter == FilterOfStoredPl(pl, year, year_type).df
            source == Flatten(clfiles[k])
        IN /\ \A p \in StoredInBoth(year) : RecordsOf(p, filter) = 1
           /\ \A i \in DOMAIN source :
                 Copies(source[i], data[k].rows) <= Copies(source[i], source)

====
